---- MODULE Spec2Model ----
(***************************************************************************)
(* Call-rate limiters of the repository: the enhanced throttle of          *)
(* "04-JS Design Pattern/06-Throttling/main.js" and the enhanced debounce  *)
(* of "04-JS Design Pattern/05-Deboncing/main.js"; further down, the       *)
(* gallery page of "07-Lazy Loading/main.js" and the BankAccount module    *)
(* of "01-Module-Pattern/main.js", each in a specification of its own.     *)
(*                                                                         *)
(* JavaScript runs every handler (a call of the wrapper, of cancel, of     *)
(* flush, a timer callback) to completion on one event loop, so each       *)
(* handler is one action.  The handlers are written as operators on a     *)
(* "world" record (the closure variables of every invoker, the host's      *)
(* timer table, the log of executions of the wrapped callable), statement  *)
(* by statement in the order of the source.                                *)
(***************************************************************************)
EXTENDS Integers, Sequences, FiniteSets, TLC

\* ------------------------------------------------------------------ bounds
MaxTime  == 4      \* the clock runs from 0 to MaxTime
MaxCalls == 3      \* calls of the wrappers in one behaviour
MaxDelay == 2      \* the largest positive delay a wrapper is built with
MaxExecs == 3      \* flush is not offered once the callable ran this often
MaxPairCalls == 2  \* calls of the wrappers when two invokers share a behaviour
MaxShortTime == 2  \* the clock runs from 0 to MaxShortTime where a behaviour
                   \* branches most: a callable that may throw, two invokers
MaxImages == 16     \* images the gallery page creates in one behaviour
MaxSingleLoads == 1 \* downloads the gallery page starts one image at a time
                    \* (observer callback, direct call) in one behaviour
MaxOps == 3        \* accepted deposit and withdraw calls of BankAccount in one
                   \* behaviour; no call is made once the history is this long
MaxFailures == 1    \* downloads of the gallery page that fail in one behaviour
MaxLoads == 9      \* downloads the gallery page starts in one behaviour

\* ----------------------------------------------------------- JS constants
Null      == 0     \* null: the value the code stores in an empty timer slot
Undefined == -1    \* undefined: a "let" without initialiser
NeverCalled == 0   \* "let lastCall = 0": the never-called sentinel
InitialBalance == 1000  \* "let accountBalance = 1000"
InitialImages == 8  \* "addImages(8)" of the DOMContentLoaded handler
AddedImages == 4    \* "addImages(4)" of the click handler of #addImages
ResetImages == 8    \* "addImages(8)" of resetDemo

\* truthiness of a timer-slot value: a handle is truthy, null/undefined falsy
Truthy(x) == x > 0

Max(a, b) == IF a >= b THEN a ELSE b

Last(s) == s[Len(s)]

\* ------------------------------------------------------------------ inputs
Delays == 1 .. MaxDelay

\* (arguments, receiver) of call number k of a wrapper.  The code never
\* inspects either, it only stores and forwards them, so every call passes
\* values of its own: what an execution received names the call it came from.
CallInputs(k) == {[args |-> <<k>>, ctx |-> k]}
\* (arguments, receiver) of a call of flush: a bare f.flush(), with an empty
\* argument list and the wrapper itself (receiver 0) as receiver, unlike
\* any wrapper call
FlushInputs == {[args |-> <<>>, ctx |-> 0]}

VARIABLES
    now,        \* Date.now(), also the host's timer clock
    inv,        \* invoker id -> its configuration and closure variables
    timers,     \* the host's table of scheduled callbacks (setTimeout)
    calls,      \* log: every call of a wrapper (time, arguments, receiver)
    execs,      \* log: every execution of a wrapped callable
    cancelled,  \* log: arming calls whose timer was scheduled at a cancel()
    flushed,    \* log: arming calls whose timer was scheduled at a flush()
    outcomes,   \* what an execution of the wrapped callable may do
    lastOp,     \* log: the handler that ran last
    page,       \* the lazy-loading gallery page ("07-Lazy Loading/main.js")
    account     \* the BankAccount module ("01-Module-Pattern/main.js")

vars == <<now, inv, timers, calls, execs, cancelled, flushed, outcomes, lastOp,
          page, account>>

\* the rate limiters do not share state with the gallery page or with the
\* BankAccount module: in their behaviours neither is loaded
NotLoaded == "not loaded"

\* ------------------------------------------------------------ host timers
\* A handle no live timer and no timer slot holds: handles are opaque, the
\* code only stores them, tests their truthiness and passes them back.
FreshId(w) ==
    LET used == {t.id : t \in w.timers} \cup {w.inv[j].timeoutId : j \in DOMAIN w.inv}
    IN  CHOOSE n \in 1 .. (Cardinality(used) + 1) :
            n \notin used /\ \A m \in 1 .. (n - 1) : m \in used

\* setTimeout(callback, wait): the callback (closing over args, ctx of call
\* number `call` of invoker i) becomes due `wait` after now; a negative wait
\* counts as 0.  The handle it returns is FreshId(w).
setTimeout(w, i, wait, args, ctx, call) ==
    [w EXCEPT !.timers = @ \cup {[id |-> FreshId(w), owner |-> i,
                                  due |-> now + Max(wait, 0),
                                  args |-> args, ctx |-> ctx, call |-> call]}]

\* clearTimeout that, given the handle of a live timer, drops every callback
\* the host has scheduled, whoever scheduled it
clearTimeout_dropsAll(w, id) ==
    IF \E t \in w.timers : t.id = id THEN [w EXCEPT !.timers = {}] ELSE w

\* clearTimeout(handle): no effect for null, undefined or a dead handle
clearTimeout(w, id) == [w EXCEPT !.timers = {t \in @ : t.id # id}]

\* the log entry of a call of the wrapper of invoker i; pending: the
\* deadlines of the timers of i the host holds when the call arrives; held:
\* the numbers of the calls those timers captured
CallRecord(w, i, in) ==
    [id |-> i, time |-> now, args |-> in.args, ctx |-> in.ctx,
     pending |-> {t.due : t \in {u \in w.timers : u.owner = i}},
     held |-> {t.call : t \in {u \in w.timers : u.owner = i}}]

\* what the wrapped callable does while it runs, defined below the handlers
\* it may call
RECURSIVE reenter(_, _, _)

\* func.apply(context, args): one execution of the wrapped callable, which
\* returns, throws or calls back into its invoker (beh).  The log notes the
\* handler it ran in (via), the call whose closure supplied the arguments
\* (call, 0 for none) and the time it was scheduled for (due: now, or the
\* deadline of the timer that ran it).
apply(w, i, ctx, args, via, call, due, beh) ==
    LET w1 == [w EXCEPT !.execs = Append(@, [id |-> i, time |-> now,
                                             args |-> args, ctx |-> ctx,
                                             via |-> via, call |-> call,
                                             due |-> due])]
    IN  [reenter(w1, i, beh) EXCEPT !.threw = (beh = "throw"), !.did = beh]

\* ---------------------------------------------------------------- throttle
\* throttle(func, delay, options): the closure variables after construction
throttle(delay, leading, trailing) ==
    [policy |-> "throttle", delay |-> delay, leading |-> leading,
     trailing |-> trailing, immediate |-> FALSE,
     lastCall |-> NeverCalled, timeoutId |-> Null, lastCallTime |-> Undefined,
     callCount |-> 0]

\* throttledFunction with "else if (trailing)": a call inside the window
\* schedules a trailing execution even when one is scheduled already
throttledFunction_rearms(w, i, args, ctx, call, beh) ==
    LET c  == w.inv[i]
        w1 == [w EXCEPT !.inv[i].callCount = @ + 1]
        w2 == IF c.lastCall = 0 /\ ~c.leading
              THEN [w1 EXCEPT !.inv[i].lastCall = now] ELSE w1
        remaining == c.delay - (now - w2.inv[i].lastCall)
    IN  IF remaining <= 0 \/ remaining > c.delay
        THEN LET w3 == IF Truthy(c.timeoutId)
                       THEN [clearTimeout(w2, c.timeoutId) EXCEPT !.inv[i].timeoutId = Null]
                       ELSE w2
                 w4 == [w3 EXCEPT !.inv[i].lastCall = now]
             IN  apply(w4, i, ctx, args, "invoke", call, now, beh)
        ELSE IF c.trailing
        THEN [setTimeout(w2, i, remaining, args, ctx, call)
                 EXCEPT !.inv[i].timeoutId = FreshId(w2)]
        ELSE w2

\* throttledFunction that keeps the latest call for the trailing execution:
\* a call inside the window replaces what the scheduled callback will replay
throttledFunction_latestArgs(w, i, args, ctx, call, beh) ==
    LET c  == w.inv[i]
        w1 == [w EXCEPT !.inv[i].callCount = @ + 1]
        w2 == IF c.lastCall = 0 /\ ~c.leading
              THEN [w1 EXCEPT !.inv[i].lastCall = now] ELSE w1
        remaining == c.delay - (now - w2.inv[i].lastCall)
    IN  IF remaining <= 0 \/ remaining > c.delay
        THEN LET w3 == IF Truthy(c.timeoutId)
                       THEN [clearTimeout(w2, c.timeoutId) EXCEPT !.inv[i].timeoutId = Null]
                       ELSE w2
                 w4 == [w3 EXCEPT !.inv[i].lastCall = now]
             IN  apply(w4, i, ctx, args, "invoke", call, now, beh)
        ELSE IF ~Truthy(c.timeoutId) /\ c.trailing
        THEN [setTimeout(w2, i, remaining, args, ctx, call)
                 EXCEPT !.inv[i].timeoutId = FreshId(w2)]
        ELSE [w2 EXCEPT !.timers =
                 {IF t.id = c.timeoutId
                  THEN [t EXCEPT !.args = args, !.ctx = ctx] ELSE t : t \in @}]

\* throttledFunction that gives up the scheduled trailing execution when a
\* further call arrives inside the window
throttledFunction_dropsTimer(w, i, args, ctx, call, beh) ==
    LET c  == w.inv[i]
        w1 == [w EXCEPT !.inv[i].callCount = @ + 1]
        w2 == IF c.lastCall = 0 /\ ~c.leading
              THEN [w1 EXCEPT !.inv[i].lastCall = now] ELSE w1
        remaining == c.delay - (now - w2.inv[i].lastCall)
    IN  IF remaining <= 0 \/ remaining > c.delay
        THEN LET w3 == IF Truthy(c.timeoutId)
                       THEN [clearTimeout(w2, c.timeoutId) EXCEPT !.inv[i].timeoutId = Null]
                       ELSE w2
                 w4 == [w3 EXCEPT !.inv[i].lastCall = now]
             IN  apply(w4, i, ctx, args, "invoke", call, now, beh)
        ELSE IF ~Truthy(c.timeoutId) /\ c.trailing
        THEN [setTimeout(w2, i, remaining, args, ctx, call)
                 EXCEPT !.inv[i].timeoutId = FreshId(w2)]
        ELSE [clearTimeout(w2, c.timeoutId) EXCEPT !.inv[i].timeoutId = Null]

\* throttledFunction without the "lastCall === 0 && !leading" step: the first
\* call is measured against the initial lastCall whatever leading says
throttledFunction_alwaysLeading(w, i, args, ctx, call, beh) ==
    LET c  == w.inv[i]
        w2 == [w EXCEPT !.inv[i].callCount = @ + 1]
        remaining == c.delay - (now - w2.inv[i].lastCall)
    IN  IF remaining <= 0 \/ remaining > c.delay
        THEN LET w3 == IF Truthy(c.timeoutId)
                       THEN [clearTimeout(w2, c.timeoutId) EXCEPT !.inv[i].timeoutId = Null]
                       ELSE w2
                 w4 == [w3 EXCEPT !.inv[i].lastCall = now]
             IN  apply(w4, i, ctx, args, "invoke", call, now, beh)
        ELSE IF ~Truthy(c.timeoutId) /\ c.trailing
        THEN [setTimeout(w2, i, remaining, args, ctx, call)
                 EXCEPT !.inv[i].timeoutId = FreshId(w2)]
        ELSE w2

\* throttledFunction without clearTimeout in the executing branch: a late
\* timer stays scheduled when a call executes at once
throttledFunction_keepsLateTimer(w, i, args, ctx, call, beh) ==
    LET c  == w.inv[i]
        w1 == [w EXCEPT !.inv[i].callCount = @ + 1]
        w2 == IF c.lastCall = 0 /\ ~c.leading
              THEN [w1 EXCEPT !.inv[i].lastCall = now] ELSE w1
        remaining == c.delay - (now - w2.inv[i].lastCall)
    IN  IF remaining <= 0 \/ remaining > c.delay
        THEN LET w4 == [w2 EXCEPT !.inv[i].timeoutId = Null,
                                  !.inv[i].lastCall = now]
             IN  apply(w4, i, ctx, args, "invoke", call, now, beh)
        ELSE IF ~Truthy(c.timeoutId) /\ c.trailing
        THEN [setTimeout(w2, i, remaining, args, ctx, call)
                 EXCEPT !.inv[i].timeoutId = FreshId(w2)]
        ELSE w2

\* throttledFunction arming its timer for the full delay instead of remaining
throttledFunction_fullDelay(w, i, args, ctx, call, beh) ==
    LET c  == w.inv[i]
        w1 == [w EXCEPT !.inv[i].callCount = @ + 1]
        w2 == IF c.lastCall = 0 /\ ~c.leading
              THEN [w1 EXCEPT !.inv[i].lastCall = now] ELSE w1
        remaining == c.delay - (now - w2.inv[i].lastCall)
    IN  IF remaining <= 0 \/ remaining > c.delay
        THEN LET w3 == IF Truthy(c.timeoutId)
                       THEN [clearTimeout(w2, c.timeoutId) EXCEPT !.inv[i].timeoutId = Null]
                       ELSE w2
                 w4 == [w3 EXCEPT !.inv[i].lastCall = now]
             IN  apply(w4, i, ctx, args, "invoke", call, now, beh)
        ELSE IF ~Truthy(c.timeoutId) /\ c.trailing
        THEN [setTimeout(w2, i, c.delay, args, ctx, call)
                 EXCEPT !.inv[i].timeoutId = FreshId(w2)]
        ELSE w2

\* throttledFunction with "remaining < 0" for "remaining <= 0": a call that
\* arrives exactly when the window ends does not execute
throttledFunction_strictElapsed(w, i, args, ctx, call, beh) ==
    LET c  == w.inv[i]
        w1 == [w EXCEPT !.inv[i].callCount = @ + 1]
        w2 == IF c.lastCall = 0 /\ ~c.leading
              THEN [w1 EXCEPT !.inv[i].lastCall = now] ELSE w1
        remaining == c.delay - (now - w2.inv[i].lastCall)
    IN  IF remaining < 0 \/ remaining > c.delay
        THEN LET w3 == IF Truthy(c.timeoutId)
                       THEN [clearTimeout(w2, c.timeoutId) EXCEPT !.inv[i].timeoutId = Null]
                       ELSE w2
                 w4 == [w3 EXCEPT !.inv[i].lastCall = now]
             IN  apply(w4, i, ctx, args, "invoke", call, now, beh)
        ELSE IF ~Truthy(c.timeoutId) /\ c.trailing
        THEN [setTimeout(w2, i, remaining, args, ctx, call)
                 EXCEPT !.inv[i].timeoutId = FreshId(w2)]
        ELSE w2

\* throttledFunction without "|| remaining > delay": a call made with a
\* clock reading earlier than lastCall waits for the old window
throttledFunction_noRegression(w, i, args, ctx, call, beh) ==
    LET c  == w.inv[i]
        w1 == [w EXCEPT !.inv[i].callCount = @ + 1]
        w2 == IF c.lastCall = 0 /\ ~c.leading
              THEN [w1 EXCEPT !.inv[i].lastCall = now] ELSE w1
        remaining == c.delay - (now - w2.inv[i].lastCall)
    IN  IF remaining <= 0
        THEN LET w3 == IF Truthy(c.timeoutId)
                       THEN [clearTimeout(w2, c.timeoutId) EXCEPT !.inv[i].timeoutId = Null]
                       ELSE w2
                 w4 == [w3 EXCEPT !.inv[i].lastCall = now]
             IN  apply(w4, i, ctx, args, "invoke", call, now, beh)
        ELSE IF ~Truthy(c.timeoutId) /\ c.trailing
        THEN [setTimeout(w2, i, remaining, args, ctx, call)
                 EXCEPT !.inv[i].timeoutId = FreshId(w2)]
        ELSE w2

\* throttledFunction without "&& trailing": a call inside the window arms a
\* timer whatever trailing says
throttledFunction_alwaysTrailing(w, i, args, ctx, call, beh) ==
    LET c  == w.inv[i]
        w1 == [w EXCEPT !.inv[i].callCount = @ + 1]
        w2 == IF c.lastCall = 0 /\ ~c.leading
              THEN [w1 EXCEPT !.inv[i].lastCall = now] ELSE w1
        remaining == c.delay - (now - w2.inv[i].lastCall)
    IN  IF remaining <= 0 \/ remaining > c.delay
        THEN LET w3 == IF Truthy(c.timeoutId)
                       THEN [clearTimeout(w2, c.timeoutId) EXCEPT !.inv[i].timeoutId = Null]
                       ELSE w2
                 w4 == [w3 EXCEPT !.inv[i].lastCall = now]
             IN  apply(w4, i, ctx, args, "invoke", call, now, beh)
        ELSE IF ~Truthy(c.timeoutId)
        THEN [setTimeout(w2, i, remaining, args, ctx, call)
                 EXCEPT !.inv[i].timeoutId = FreshId(w2)]
        ELSE w2

\* the wrapper: throttledFunction(...args), this = ctx
throttledFunction(w, i, args, ctx, call, beh) ==
    LET c  == w.inv[i]
        w1 == [w EXCEPT !.inv[i].callCount = @ + 1]
        w2 == IF c.lastCall = 0 /\ ~c.leading
              THEN [w1 EXCEPT !.inv[i].lastCall = now] ELSE w1
        remaining == c.delay - (now - w2.inv[i].lastCall)
    IN  IF remaining <= 0 \/ remaining > c.delay
        THEN LET w3 == IF Truthy(c.timeoutId)
                       THEN [clearTimeout(w2, c.timeoutId) EXCEPT !.inv[i].timeoutId = Null]
                       ELSE w2
                 w4 == [w3 EXCEPT !.inv[i].lastCall = now]
             IN  apply(w4, i, ctx, args, "invoke", call, now, beh)
        ELSE IF ~Truthy(c.timeoutId) /\ c.trailing
        THEN [setTimeout(w2, i, remaining, args, ctx, call)
                 EXCEPT !.inv[i].timeoutId = FreshId(w2)]
        ELSE w2

\* the timer callback without "lastCall = ...": a trailing execution does
\* not open a new window
throttle_timeout_keepsLastCall(w, t, beh) ==
    LET i  == t.owner
        w1 == [w EXCEPT !.inv[i].timeoutId = Null]
    IN  apply(w1, i, t.ctx, t.args, "timer", t.call, t.due, beh)

\* the timer callback without "timeoutId = null": the slot keeps the handle
\* of the timer that has fired
throttle_timeout_keepsSlot(w, t, beh) ==
    LET i  == t.owner
        w1 == [w EXCEPT !.inv[i].lastCall =
                            IF w.inv[i].leading = FALSE THEN 0 ELSE now]
    IN  apply(w1, i, t.ctx, t.args, "timer", t.call, t.due, beh)

\* the callback throttledFunction hands to setTimeout, run for timer t
throttle_timeout(w, t, beh) ==
    LET i  == t.owner
        w1 == [w EXCEPT !.inv[i].lastCall =
                            IF w.inv[i].leading = FALSE THEN 0 ELSE now,
                        !.inv[i].timeoutId = Null]
    IN  apply(w1, i, t.ctx, t.args, "timer", t.call, t.due, beh)

\* cancel() that empties the slot and forgets clearTimeout
throttle_cancel_noClear(w, i) ==
    [w EXCEPT !.inv[i].timeoutId = Null, !.inv[i].lastCall = 0]

\* cancel() without "lastCall = 0": the window of the last execution stays
throttle_cancel_keepsLastCall(w, i) ==
    LET c  == w.inv[i]
    IN  IF Truthy(c.timeoutId)
        THEN [clearTimeout(w, c.timeoutId) EXCEPT !.inv[i].timeoutId = Null]
        ELSE w

\* throttledFunction.cancel()
throttle_cancel(w, i) ==
    LET c  == w.inv[i]
        w1 == IF Truthy(c.timeoutId)
              THEN [clearTimeout(w, c.timeoutId) EXCEPT !.inv[i].timeoutId = Null]
              ELSE w
    IN  [w1 EXCEPT !.inv[i].lastCall = 0]

\* flush() that replays the call the pending timer captured, instead of
\* applying its own arguments and receiver
throttle_flush_replaysCaptured(w, i, args, ctx, beh) ==
    LET c == w.inv[i]
    IN  IF Truthy(c.timeoutId)
        THEN LET w1 == [clearTimeout(w, c.timeoutId)
                           EXCEPT !.inv[i].lastCall = now,
                                  !.inv[i].timeoutId = Null]
                 t  == CHOOSE t \in w.timers : t.id = c.timeoutId
             IN  IF \E u \in w.timers : u.id = c.timeoutId
                 THEN apply(w1, i, t.ctx, t.args, "flush", 0, now, beh)
                 ELSE apply(w1, i, ctx, args, "flush", 0, now, beh)
        ELSE w

\* flush() without "if (timeoutId)": it executes whether or not a timer is
\* scheduled
throttle_flush_unguarded(w, i, args, ctx, beh) ==
    LET c  == w.inv[i]
        w1 == [clearTimeout(w, c.timeoutId)
                  EXCEPT !.inv[i].lastCall = now, !.inv[i].timeoutId = Null]
    IN  apply(w1, i, ctx, args, "flush", 0, now, beh)

\* throttledFunction.flush(...args), this = ctx
throttle_flush(w, i, args, ctx, beh) ==
    LET c == w.inv[i]
    IN  IF Truthy(c.timeoutId)
        THEN LET w1 == [clearTimeout(w, c.timeoutId)
                           EXCEPT !.inv[i].lastCall = now,
                                  !.inv[i].timeoutId = Null]
             IN  apply(w1, i, ctx, args, "flush", 0, now, beh)
        ELSE w

\* ---------------------------------------------------------------- debounce
\* debounce(func, delay, immediate): the closure variables after construction
debounce(delay, immediate) ==
    [policy |-> "debounce", delay |-> delay, leading |-> TRUE,
     trailing |-> TRUE, immediate |-> immediate,
     lastCall |-> NeverCalled, timeoutId |-> Undefined, lastCallTime |-> Undefined,
     callCount |-> 0]

\* debouncedFunction without clearTimeout: the timer of an earlier call
\* stays scheduled
debouncedFunction_noClear(w, i, args, ctx, call, beh) ==
    LET c  == w.inv[i]
        w1 == [w EXCEPT !.inv[i].callCount = @ + 1,
                        !.inv[i].lastCallTime = now]
        w3 == IF c.immediate /\ ~Truthy(c.timeoutId)
              THEN apply(w1, i, ctx, args, "invoke", call, now, beh)
              ELSE w1
    IN  IF w3.threw THEN w3
        ELSE [setTimeout(w3, i, c.delay, args, ctx, call)
                 EXCEPT !.inv[i].timeoutId = FreshId(w3)]

\* debouncedFunction that leaves a scheduled timer alone (as throttle does):
\* the first call of a burst is the one replayed, delay after it
debouncedFunction_keepsFirstTimer(w, i, args, ctx, call, beh) ==
    LET c  == w.inv[i]
        w1 == [w EXCEPT !.inv[i].callCount = @ + 1,
                        !.inv[i].lastCallTime = now]
        w3 == IF c.immediate /\ ~Truthy(c.timeoutId)
              THEN apply(w1, i, ctx, args, "invoke", call, now, beh)
              ELSE w1
    IN  IF w3.threw \/ Truthy(c.timeoutId) THEN w3
        ELSE [setTimeout(w3, i, c.delay, args, ctx, call)
                 EXCEPT !.inv[i].timeoutId = FreshId(w3)]

\* debouncedFunction with "if (immediate)": every call executes
debouncedFunction_noGuard(w, i, args, ctx, call, beh) ==
    LET c  == w.inv[i]
        w1 == [w EXCEPT !.inv[i].callCount = @ + 1,
                        !.inv[i].lastCallTime = now]
        w2 == clearTimeout(w1, c.timeoutId)
        w3 == IF c.immediate
              THEN apply(w2, i, ctx, args, "invoke", call, now, beh)
              ELSE w2
    IN  IF w3.threw THEN w3
        ELSE [setTimeout(w3, i, c.delay, args, ctx, call)
                 EXCEPT !.inv[i].timeoutId = FreshId(w3)]

\* debouncedFunction that counts the call last, after the callable returned
debouncedFunction_countsLast(w, i, args, ctx, call, beh) ==
    LET c  == w.inv[i]
        w1 == [w EXCEPT !.inv[i].lastCallTime = now]
        w2 == clearTimeout(w1, c.timeoutId)
        w3 == IF c.immediate /\ ~Truthy(c.timeoutId)
              THEN apply(w2, i, ctx, args, "invoke", call, now, beh)
              ELSE w2
    IN  IF w3.threw THEN w3
        ELSE [setTimeout(w3, i, c.delay, args, ctx, call)
                 EXCEPT !.inv[i].timeoutId = FreshId(w3),
                        !.inv[i].callCount = @ + 1]

\* the wrapper: debouncedFunction(...args), this = ctx
debouncedFunction(w, i, args, ctx, call, beh) ==
    LET c  == w.inv[i]
        w1 == [w EXCEPT !.inv[i].callCount = @ + 1,
                        !.inv[i].lastCallTime = now]
        w2 == clearTimeout(w1, c.timeoutId)
        w3 == IF c.immediate /\ ~Truthy(c.timeoutId)
              THEN apply(w2, i, ctx, args, "invoke", call, now, beh)
              ELSE w2
    IN  IF w3.threw THEN w3
        ELSE [setTimeout(w3, i, c.delay, args, ctx, call)
                 EXCEPT !.inv[i].timeoutId = FreshId(w3)]

\* the timer callback of an invoker that never replays: it only empties the
\* slot, whatever immediate is
debounce_timeout_silent(w, t, beh) ==
    [w EXCEPT !.inv[t.owner].timeoutId = Null]

\* the timer callback without "if (!immediate)": it executes the captured
\* call in both modes
debounce_timeout_unguarded(w, t, beh) ==
    LET i  == t.owner
        w1 == apply(w, i, t.ctx, t.args, "timer", t.call, t.due, beh)
    IN  IF w1.threw THEN w1
        ELSE [w1 EXCEPT !.inv[i].timeoutId = Null]

\* the callback debouncedFunction hands to setTimeout, run for timer t
debounce_timeout(w, t, beh) ==
    LET i  == t.owner
        w1 == IF ~w.inv[i].immediate
              THEN apply(w, i, t.ctx, t.args, "timer", t.call, t.due, beh)
              ELSE w
    IN  IF w1.threw THEN w1
        ELSE [w1 EXCEPT !.inv[i].timeoutId = Null]

\* cancel() without "timeoutId = null": the timer is cleared, the slot keeps
\* its handle
debounce_cancel_keepsSlot(w, i) ==
    clearTimeout(w, w.inv[i].timeoutId)

\* debouncedFunction.cancel()
debounce_cancel(w, i) ==
    [clearTimeout(w, w.inv[i].timeoutId) EXCEPT !.inv[i].timeoutId = Null]

\* flush() that honours immediate as the timer callback does: nothing is
\* executed for an immediate debounce
debounce_flush_unlessImmediate(w, i, args, ctx, beh) ==
    LET c == w.inv[i]
    IN  IF Truthy(c.timeoutId)
        THEN LET w0 == clearTimeout(w, c.timeoutId)
                 w1 == IF ~c.immediate
                       THEN apply(w0, i, ctx, args, "flush", 0, now, beh)
                       ELSE w0
             IN  IF w1.threw THEN w1
                 ELSE [w1 EXCEPT !.inv[i].timeoutId = Null]
        ELSE w

\* debouncedFunction.flush(...args), this = ctx
debounce_flush(w, i, args, ctx, beh) ==
    LET c == w.inv[i]
    IN  IF Truthy(c.timeoutId)
        THEN LET w1 == apply(clearTimeout(w, c.timeoutId), i, ctx, args, "flush", 0, now, beh)
             IN  IF w1.threw THEN w1
                 ELSE [w1 EXCEPT !.inv[i].timeoutId = Null]
        ELSE w

\* What the body of the wrapped callable does with its own invoker i while
\* it runs: nothing ("return", "throw"), or one call of cancel(), of a bare
\* flush() or of the wrapper; the execution a nested call causes returns.
reenter(w, i, beh) ==
    LET th == w.inv[i].policy = "throttle"
        k  == Len(w.calls) + 1
        in == CHOOSE x \in CallInputs(k) : TRUE
        fl == CHOOSE x \in FlushInputs : TRUE
        wc == [w EXCEPT !.calls = Append(@, CallRecord(w, i, in))]
    IN  CASE beh = "cancel" ->
                 IF th THEN throttle_cancel(w, i) ELSE debounce_cancel(w, i)
          [] beh = "flush" ->
                 IF th THEN throttle_flush(w, i, fl.args, fl.ctx, "return")
                       ELSE debounce_flush(w, i, fl.args, fl.ctx, "return")
          [] beh = "invoke" ->
                 IF th THEN throttledFunction(wc, i, in.args, in.ctx, k, "return")
                       ELSE debouncedFunction(wc, i, in.args, in.ctx, k, "return")
          [] OTHER -> w

\* getCallCount() of either wrapper
getCallCount(i) == inv[i].callCount

\* ---------------------------------------------------------- simpleThrottle
\* simpleThrottle(func, delay), and the throttle(func, delay) the debounce
\* file defines for comparison, which is the same code: the closure variable
\* after construction
simpleThrottle(delay) ==
    [policy |-> "simple", delay |-> delay, lastCall |-> 0]

\* the returned function with ">" for ">=": a call exactly delay after the
\* last execution is dropped
simpleThrottled_strict(w, i, args, ctx, call, beh) ==
    IF now - w.inv[i].lastCall > w.inv[i].delay
    THEN apply([w EXCEPT !.inv[i].lastCall = now],
               i, ctx, args, "invoke", call, now, beh)
    ELSE w

\* the function simpleThrottle returns, called with args and this = ctx
simpleThrottled(w, i, args, ctx, call, beh) ==
    IF now - w.inv[i].lastCall >= w.inv[i].delay
    THEN apply([w EXCEPT !.inv[i].lastCall = now],
               i, ctx, args, "invoke", call, now, beh)
    ELSE w

\* ------------------------------------------------------ the gallery page
\* "07-Lazy Loading/main.js".  page.state is the object "state" (the two
\* counters the gallery keeps about images); page.images are the <img
\* class="lazy-image"> elements ever created, in order of creation: attached
\* (still in the gallery), observed (by state.observers.image), src (the src
\* attribute is set) and the log field counted (how often an onload of this
\* image incremented state.loadedImages); page.loads are the Image objects
\* loadImage created whose onload/onerror is still to come, each with the
\* image it was started for and by whom; page.retries are the pending
\* 2-second timers of the observer's catch; page.started counts the loads
\* started so far, page.single those of them started for one image by an
\* observer callback or a direct call of loadImage, page.failed the
\* downloads that have failed.

\* the closure variables of the page and an empty gallery, before
\* DOMContentLoaded
emptyPage ==
    [state |-> [totalImages |-> 0, loadedImages |-> 0],
     images |-> <<>>, loads |-> {}, retries |-> {}, started |-> 0,
     single |-> 0, failed |-> 0]

\* addImages(count): count new cards, their images observed, then
\* state.totalImages += count
addImages(p, count) ==
    [p EXCEPT !.images = @ \o [k \in 1 .. count |->
                                  [attached |-> TRUE, observed |-> TRUE,
                                   src |-> FALSE, counted |-> 0]],
              !.state.totalImages = @ + count]

\* loadImage(img) up to "tempImg.src = imageUrl": a download is under way
loadImage(p, img, by) ==
    [p EXCEPT !.loads = @ \cup {[n |-> p.started + 1, img |-> img, by |-> by]},
              !.started = @ + 1]

\* tempImg.onload of load l, then the .then of the caller: the image gets
\* its src, state.loadedImages++, and (observer, loadAllImages) unobserve;
\* the retry and a direct call have no .then
onload(p, l) ==
    LET p1 == [p EXCEPT !.loads = @ \ {l},
                        !.images[l.img].src = TRUE,
                        !.images[l.img].counted = @ + 1,
                        !.state.loadedImages = @ + 1]
    IN  IF l.by \in {"observer", "loadAll"}
        THEN [p1 EXCEPT !.images[l.img].observed = FALSE]
        ELSE p1

\* tempImg.onerror of load l, then the .catch of the caller: the observer
\* schedules one retry, loadAllImages and a direct call have no catch, the
\* retry only logs
onerror(p, l) ==
    LET p1 == [p EXCEPT !.loads = @ \ {l}, !.failed = @ + 1]
    IN  IF l.by = "observer"
        THEN [p1 EXCEPT !.retries = @ \cup {[n |-> l.n, img |-> l.img]}]
        ELSE p1

\* the callback of the image observer for one intersecting entry
imageObserved(p, img) ==
    IF ~p.images[img].src
    THEN [loadImage(p, img, "observer") EXCEPT !.single = @ + 1]
    ELSE p

\* the images loadAllImages selects: ".lazy-image:not([src])" in the document
NotYetLoaded(p) ==
    {img \in 1 .. Len(p.images) : p.images[img].attached /\ ~p.images[img].src}

\* loadAllImages(): loadImage for every selected image, in document order
loadAllImages(p) ==
    LET sel == NotYetLoaded(p)
    IN  [p EXCEPT !.loads = @ \cup
                      {[n |-> p.started + Cardinality({j \in sel : j <= img}),
                        img |-> img, by |-> "loadAll"] : img \in sel},
                  !.started = @ + Cardinality(sel)]

\* resetDemo(): the gallery is emptied, the counters are zeroed, and
\* addImages(8)
resetDemo(p) ==
    LET p1 == [p EXCEPT !.images = [k \in 1 .. Len(p.images) |->
                                       [p.images[k] EXCEPT !.attached = FALSE]],
                        !.state = [totalImages |-> 0, loadedImages |-> 0]]
    IN  addImages(p1, ResetImages)

\* ------------------------------------------------------------- BankAccount
\* "01-Module-Pattern/main.js".  An amount is whatever number the caller
\* passes: an integer or NaN.  Every comparison with NaN is false and every
\* sum or difference with NaN is NaN, as in JavaScript.
Num(v) == [nan |-> FALSE, v |-> v]
NaN    == [nan |-> TRUE, v |-> 0]

LessEq(a, b)  == ~a.nan /\ ~b.nan /\ a.v <= b.v
Less(a, b)    == ~a.nan /\ ~b.nan /\ a.v < b.v
Greater(a, b) == ~a.nan /\ ~b.nan /\ a.v > b.v
Plus(a, b)    == IF a.nan \/ b.nan THEN NaN ELSE Num(a.v + b.v)
Minus(a, b)   == IF a.nan \/ b.nan THEN NaN ELSE Num(a.v - b.v)

\* the amounts of the usage example (500, 200, 50, 2000), the limits the
\* code tests (0, 100), one on either side of them, and NaN
Amounts == {Num(v) : v \in {-100, 0, 50, 99, 100, 200, 500, 2000}} \cup {NaN}

\* the private variables of the module after the IIFE has run; returned and
\* lastCall are log fields: what the last public call returned and was
BankAccount ==
    [accountBalance |-> Num(InitialBalance), transactionHistory |-> <<>>,
     returned |-> "none", lastCall |-> [fn |-> "none", amount |-> Num(0)]]

\* addTransaction(type, amount): one entry with the balance at this moment
\* (the date of the entry plays no part in any claim and is left out)
addTransaction(a, type, amount) ==
    [a EXCEPT !.transactionHistory =
                  Append(@, [type |-> type, amount |-> amount,
                             balance |-> a.accountBalance])]

\* withdraw without the test "amount > accountBalance"
withdraw_overdraws(a, amount) ==
    LET a0 == [a EXCEPT !.lastCall = [fn |-> "withdraw", amount |-> amount]]
    IN  IF LessEq(amount, Num(0))
        THEN [a0 EXCEPT !.returned = FALSE]
        ELSE LET a1 == [a0 EXCEPT !.accountBalance = Minus(@, amount)]
             IN  [addTransaction(a1, "Withdraw", amount) EXCEPT !.returned = TRUE]

\* withdraw(amount)
withdraw(a, amount) ==
    LET a0 == [a EXCEPT !.lastCall = [fn |-> "withdraw", amount |-> amount]]
    IN  IF LessEq(amount, Num(0))
        THEN [a0 EXCEPT !.returned = FALSE]
        ELSE IF Greater(amount, a.accountBalance)
        THEN [a0 EXCEPT !.returned = FALSE]
        ELSE LET a1 == [a0 EXCEPT !.accountBalance = Minus(@, amount)]
             IN  [addTransaction(a1, "Withdraw", amount) EXCEPT !.returned = TRUE]

\* deposit(amount)
deposit(a, amount) ==
    LET a0 == [a EXCEPT !.lastCall = [fn |-> "deposit", amount |-> amount]]
    IN  IF Less(amount, Num(100))
        THEN [a0 EXCEPT !.returned = FALSE]
        ELSE LET a1 == [a0 EXCEPT !.accountBalance = Plus(@, amount)]
             IN  [addTransaction(a1, "Deposit", amount) EXCEPT !.returned = TRUE]

\* ------------------------------------------------------------ the machine
Configs ==
    {throttle(d, l, t) : d \in Delays, l \in BOOLEAN, t \in BOOLEAN}
    \cup {debounce(d, im) : d \in Delays, im \in BOOLEAN}

\* the handler that ran last: ran counts the executions it made, did is what
\* the callable did in the execution the handler started ("none": no execution)
Op(name, i) == [op |-> name, id |-> i, threw |-> FALSE, ran |-> 0, did |-> "none"]

\* ids: the invokers built; behs: what the wrapped callables may do
InitWith(ids, behs) ==
    /\ now = 0
    /\ inv \in [ids -> Configs]
    /\ outcomes = behs
    /\ timers = {}
    /\ calls = <<>>
    /\ execs = <<>>
    /\ cancelled = {}
    /\ flushed = {}
    /\ lastOp = Op("none", 0)
    /\ page = NotLoaded
    /\ account = NotLoaded

\* one invoker around a callable that returns normally
Init == InitWith({1}, {"return"})

\* one invoker around a callable that may throw
InitThrow == InitWith({1}, {"return", "throw"})

Ids == DOMAIN inv

\* the timers of invoker i scheduled in the host
Outstanding(i) == {t \in timers : t.owner = i}

World == [inv |-> inv, timers |-> timers, execs |-> execs, calls |-> calls,
          threw |-> FALSE, did |-> "none"]

\* the state after a handler that left world w
Becomes(w, op) ==
    \E x \in {w} :
        /\ inv' = x.inv
        /\ timers' = x.timers
        /\ execs' = x.execs
        /\ calls' = x.calls
        /\ lastOp' = [op EXCEPT !.threw = x.threw, !.did = x.did,
                                !.ran = Len(x.execs) - Len(execs)]

\* a call of the wrapper of invoker i
Call(i, in, beh) ==
    /\ LET call == Len(calls) + 1
           w0 == [World EXCEPT !.calls = Append(@, CallRecord(World, i, in))]
           w  == IF inv[i].policy = "throttle"
                 THEN throttledFunction(w0, i, in.args, in.ctx, call, beh)
                 ELSE debouncedFunction(w0, i, in.args, in.ctx, call, beh)
       IN  Becomes(w, Op("invoke", i))
    /\ UNCHANGED <<page, account, now, cancelled, flushed, outcomes>>

\* a call of the wrapper of invoker i, while the behaviour has calls left
Invoke(i, in, beh) ==
    /\ Len(calls) < MaxCalls
    /\ Call(i, in, beh)

\* the host runs the callback of timer t, which is due; the host drops the
\* timer from its table before the callback runs
Fire(t, beh) ==
    /\ now >= t.due
    /\ LET w0 == [World EXCEPT !.timers = @ \ {t}]
           w  == IF inv[t.owner].policy = "throttle"
                 THEN throttle_timeout(w0, t, beh)
                 ELSE debounce_timeout(w0, t, beh)
       IN  Becomes(w, Op("fire", t.owner))
    /\ UNCHANGED <<page, account, now, cancelled, flushed, outcomes>>

\* a call of cancel() of invoker i
Cancel(i) ==
    /\ LET w == IF inv[i].policy = "throttle"
                THEN throttle_cancel(World, i)
                ELSE debounce_cancel(World, i)
       IN  /\ Becomes(w, Op("cancel", i))
           /\ cancelled' = cancelled \cup {t.call : t \in Outstanding(i)}
    /\ UNCHANGED <<page, account, now, flushed, outcomes>>

\* a call of flush(...args) of invoker i
Flush(i, in, beh) ==
    /\ Len(execs) < MaxExecs
    /\ LET w == IF inv[i].policy = "throttle"
                THEN throttle_flush(World, i, in.args, in.ctx, beh)
                ELSE debounce_flush(World, i, in.args, in.ctx, beh)
       IN  /\ Becomes(w, Op("flush", i))
           /\ flushed' = flushed \cup {t.call : t \in Outstanding(i)}
    /\ UNCHANGED <<page, account, now, cancelled, outcomes>>

\* one unit of time passes with no handler running
Tick ==
    /\ now < MaxTime
    /\ now' = now + 1
    /\ lastOp' = Op("tick", 0)
    /\ UNCHANGED <<page, account, inv, timers, calls, execs, cancelled, flushed, outcomes>>

Next ==
    \/ \E i \in Ids, in \in CallInputs(Len(calls) + 1), beh \in outcomes : Invoke(i, in, beh)
    \/ \E t \in timers, beh \in outcomes : Fire(t, beh)
    \/ \E i \in Ids : Cancel(i)
    \/ \E i \in Ids, in \in FlushInputs, beh \in outcomes : Flush(i, in, beh)
    \/ Tick

Spec == Init /\ [][Next]_vars

\* one unit of time passes, on the shorter clock
TickShort ==
    /\ now < MaxShortTime
    /\ now' = now + 1
    /\ lastOp' = Op("tick", 0)
    /\ UNCHANGED <<page, account, inv, timers, calls, execs, cancelled, flushed, outcomes>>

\* every handler, with a callable that may throw
NextThrow ==
    \/ \E i \in Ids, in \in CallInputs(Len(calls) + 1), beh \in outcomes : Invoke(i, in, beh)
    \/ \E t \in timers, beh \in outcomes : Fire(t, beh)
    \/ \E i \in Ids : Cancel(i)
    \/ \E i \in Ids, in \in FlushInputs, beh \in outcomes : Flush(i, in, beh)
    \/ TickShort

SpecThrow == InitThrow /\ [][NextThrow]_vars

\* the wrapper is only called: nobody calls cancel() or flush()
NextCalls ==
    \/ \E i \in Ids, in \in CallInputs(Len(calls) + 1), beh \in outcomes : Invoke(i, in, beh)
    \/ \E t \in timers, beh \in outcomes : Fire(t, beh)
    \/ Tick

SpecCalls == Init /\ [][NextCalls]_vars

SpecCallsThrow == InitThrow /\ [][NextCalls]_vars

\* the clock has reached MaxTime and the host still holds a timer that is
\* not due: time goes on until it is
TickDue ==
    /\ now >= MaxTime
    /\ \E t \in timers : t.due > now
    /\ now' = now + 1
    /\ lastOp' = Op("tick", 0)
    /\ UNCHANGED <<page, account, inv, timers, calls, execs, cancelled, flushed, outcomes>>

\* the wrapper is only called, time never stops while a timer waits for its
\* deadline, and the host gets to run every callback that is due
NextFair ==
    \/ \E i \in Ids, in \in CallInputs(Len(calls) + 1), beh \in outcomes : Invoke(i, in, beh)
    \/ \E t \in timers, beh \in outcomes : Fire(t, beh)
    \/ Tick
    \/ TickDue

SpecFair ==
    /\ Init /\ [][NextFair]_vars
    /\ WF_vars(Tick \/ TickDue)
    /\ WF_vars(\E t \in timers, beh \in outcomes : Fire(t, beh))

\* two invokers built from the same callable with the same delay and
\* options, each with closure variables of its own
InitPair == InitWith({1, 2}, {"return"}) /\ inv[1] = inv[2]

\* a call of the wrapper of one of the two; also used where the clock may be
\* set back, to keep the number of calls small
InvokeOfPair(i, in, beh) ==
    /\ Len(calls) < MaxPairCalls
    /\ Call(i, in, beh)

NextPair ==
    \/ \E i \in Ids, in \in CallInputs(Len(calls) + 1), beh \in outcomes : InvokeOfPair(i, in, beh)
    \/ \E t \in timers, beh \in outcomes : Fire(t, beh)
    \/ \E i \in Ids : Cancel(i)
    \/ \E i \in Ids, in \in FlushInputs, beh \in outcomes : Flush(i, in, beh)
    \/ TickShort

SpecPair == InitPair /\ [][NextPair]_vars

\* one invoker around a callable that may call cancel(), flush() or the
\* wrapper of its own invoker while it runs
InitReentrant == InitWith({1}, {"return", "cancel", "flush", "invoke"})

SpecReentrant == InitReentrant /\ [][Next]_vars

\* throttle accepts any number as delay: zero and negative delays too
AnyDelays == (0 - MaxDelay) .. MaxDelay

\* one throttled invoker built with a delay of either sign around a callable
\* that returns normally
InitAnyDelay ==
    /\ now = 0
    /\ inv \in [{1} -> {throttle(d, l, t) :
                           d \in AnyDelays, l \in BOOLEAN, t \in BOOLEAN}]
    /\ outcomes = {"return"}
    /\ timers = {}
    /\ calls = <<>>
    /\ execs = <<>>
    /\ cancelled = {}
    /\ flushed = {}
    /\ lastOp = Op("none", 0)
    /\ page = NotLoaded
    /\ account = NotLoaded

SpecAnyDelay == InitAnyDelay /\ [][Next]_vars

\* the wall clock Date.now() reads is set back by one unit; the host measures
\* the waits of its timers on its own clock, so every scheduled timer stays
\* as far from its deadline as it was (the deadlines are kept at readings
\* of 0 or more to keep the model finite)
ClockBack ==
    /\ now > 0
    /\ \A t \in timers : t.due > 0
    /\ now' = now - 1
    /\ timers' = {[t EXCEPT !.due = @ - 1] : t \in timers}
    /\ lastOp' = Op("back", 0)
    /\ UNCHANGED <<page, account, inv, calls, execs, cancelled, flushed, outcomes>>

\* the wrapper is called while the wall clock may be set back
NextClockBack ==
    \/ \E i \in Ids, in \in CallInputs(Len(calls) + 1), beh \in outcomes : InvokeOfPair(i, in, beh)
    \/ \E t \in timers, beh \in outcomes : Fire(t, beh)
    \/ TickShort
    \/ ClockBack

SpecClockBack == Init /\ [][NextClockBack]_vars

\* one function returned by simpleThrottle, built with a delay of either
\* sign around a callable that may throw
InitSimple ==
    /\ now = 0
    /\ inv \in [{1} -> {simpleThrottle(d) : d \in AnyDelays}]
    /\ outcomes = {"return", "throw"}
    /\ timers = {}
    /\ calls = <<>>
    /\ execs = <<>>
    /\ cancelled = {}
    /\ flushed = {}
    /\ lastOp = Op("none", 0)
    /\ page = NotLoaded
    /\ account = NotLoaded

\* a call of the function simpleThrottle returned
InvokeSimple(i, in, beh) ==
    /\ Len(calls) < MaxCalls
    /\ LET call == Len(calls) + 1
           w0 == [World EXCEPT !.calls = Append(@, CallRecord(World, i, in))]
       IN  Becomes(simpleThrottled(w0, i, in.args, in.ctx, call, beh),
                   Op("invoke", i))
    /\ UNCHANGED <<page, account, now, cancelled, flushed, outcomes>>

NextSimple ==
    \/ \E i \in Ids, in \in CallInputs(Len(calls) + 1), beh \in outcomes : InvokeSimple(i, in, beh)
    \/ Tick

SpecSimple == InitSimple /\ [][NextSimple]_vars

\* ------------------------------------------- the gallery page as a machine
\* the rate limiters are not part of the page
LimitersIdle ==
    /\ now = 0
    /\ inv = <<>>
    /\ timers = {}
    /\ calls = <<>>
    /\ execs = <<>>
    /\ cancelled = {}
    /\ flushed = {}
    /\ outcomes = {}
    /\ lastOp = Op("none", 0)

limiters == <<now, inv, timers, calls, execs, cancelled, flushed, outcomes, lastOp>>

\* DOMContentLoaded: the observers are created and the first images added
InitLazy ==
    /\ LimitersIdle
    /\ account = NotLoaded
    /\ page = addImages(emptyPage, InitialImages)

\* an observed image of the gallery enters the viewport (again): the browser
\* runs the observer's callback with an intersecting entry for it
Intersect(img) ==
    /\ page.images[img].attached /\ page.images[img].observed
    /\ page.started < MaxLoads /\ page.single < MaxSingleLoads
    /\ page' = imageObserved(page, img)
    /\ UNCHANGED <<account, limiters>>

\* the download of load l has succeeded
LoadSucceeds(l) ==
    /\ page' = onload(page, l)
    /\ UNCHANGED <<account, limiters>>

\* the download of load l has failed
LoadFails(l) ==
    /\ page.failed < MaxFailures
    /\ page' = onerror(page, l)
    /\ UNCHANGED <<account, limiters>>

\* the 2-second timer of the observer's catch fires: loadImage(img) again
Retry(r) ==
    /\ page.started < MaxLoads
    /\ page' = loadImage([page EXCEPT !.retries = @ \ {r}], r.img, "retry")
    /\ UNCHANGED <<account, limiters>>

\* another script of the page calls the global function loadImage(img) for
\* an image of the gallery: a download with no .then and no .catch
LoadImage(img) ==
    /\ page.images[img].attached
    /\ page.started < MaxLoads /\ page.single < MaxSingleLoads
    /\ page' = [loadImage(page, img, "direct") EXCEPT !.single = @ + 1]
    /\ UNCHANGED <<account, limiters>>

\* a click on "Load All"
LoadAll ==
    /\ page.started + Cardinality(NotYetLoaded(page)) <= MaxLoads
    /\ page' = loadAllImages(page)
    /\ UNCHANGED <<account, limiters>>

\* a click on "Add Images"
AddImages ==
    /\ Len(page.images) + AddedImages <= MaxImages
    /\ page' = addImages(page, AddedImages)
    /\ UNCHANGED <<account, limiters>>

\* a click on "Reset Demo"
ResetDemo ==
    /\ Len(page.images) + ResetImages <= MaxImages
    /\ page' = resetDemo(page)
    /\ UNCHANGED <<account, limiters>>

NextLazy ==
    \/ \E img \in 1 .. Len(page.images) : Intersect(img)
    \/ \E l \in page.loads : LoadSucceeds(l)
    \/ \E l \in page.loads : LoadFails(l)
    \/ \E r \in page.retries : Retry(r)
    \/ \E img \in 1 .. Len(page.images) : LoadImage(img)
    \/ LoadAll
    \/ AddImages
    \/ ResetDemo

SpecLazy == InitLazy /\ [][NextLazy]_vars

\* ----------------------------------------- the BankAccount as a machine
InitBank ==
    /\ LimitersIdle
    /\ page = NotLoaded
    /\ account = BankAccount

\* BankAccount.withdraw(amount)
Withdraw(amount) ==
    /\ Len(account.transactionHistory) < MaxOps
    /\ account' = withdraw(account, amount)
    /\ UNCHANGED <<page, limiters>>

\* BankAccount.deposit(amount)
Deposit(amount) ==
    /\ Len(account.transactionHistory) < MaxOps
    /\ account' = deposit(account, amount)
    /\ UNCHANGED <<page, limiters>>

NextBank ==
    \/ \E amount \in Amounts : Withdraw(amount)
    \/ \E amount \in Amounts : Deposit(amount)

SpecBank == InitBank /\ [][NextBank]_vars

\* ------------------------------------------------- a scripted burst
\* throttle(fn, 100) with default options, called at 0, 30, 60, 90 and 120
\* after the first call.  The clock starts well after the epoch, as
\* Date.now() does, and is read in steps of 10.
ScenarioTimes == <<0, 30, 60, 90, 120>>

InitScenario ==
    /\ now = 1000
    /\ inv = [i \in {1} |-> throttle(100, TRUE, TRUE)]
    /\ outcomes = {"return"}
    /\ timers = {}
    /\ calls = <<>>
    /\ execs = <<>>
    /\ cancelled = {}
    /\ flushed = {}
    /\ lastOp = Op("none", 0)
    /\ page = NotLoaded
    /\ account = NotLoaded

\* the next call of the script is due now
ScenarioCallDue ==
    /\ Len(calls) < Len(ScenarioTimes)
    /\ calls # <<>> => now = calls[1].time + ScenarioTimes[Len(calls) + 1]

ScenarioCall(in, beh) ==
    /\ ScenarioCallDue
    /\ Call(1, in, beh)

\* time passes once the call that is due has been made, until two delays
\* after the last call
ScenarioTick ==
    /\ calls # <<>>
    /\ ~ScenarioCallDue
    /\ now < calls[1].time + Last(ScenarioTimes) + 2 * inv[1].delay
    /\ now' = now + 10
    /\ lastOp' = Op("tick", 0)
    /\ UNCHANGED <<page, account, inv, timers, calls, execs, cancelled, flushed, outcomes>>

NextScenario ==
    \/ \E in \in CallInputs(Len(calls) + 1), beh \in outcomes : ScenarioCall(in, beh)
    \/ \E t \in timers, beh \in outcomes : Fire(t, beh)
    \/ ScenarioTick

SpecScenario == InitScenario /\ [][NextScenario]_vars

\* ------------------------------------------------- reading the logs
Throttled(i) == inv[i].policy = "throttle"
Debounced(i) == inv[i].policy = "debounce"

\* the calls of the wrapper of invoker i, and the executions of its callable
CallsOf(i) == SelectSeq(calls, LAMBDA c : c.id = i)
ExecsOf(i) == SelectSeq(execs, LAMBDA e : e.id = i)

\* every call of invoker i came less than delay after the one before
Burst(i) ==
    \A k \in 2 .. Len(CallsOf(i)) :
        CallsOf(i)[k].time - CallsOf(i)[k - 1].time < inv[i].delay

\* time between the first and the last call of invoker i
TotalDuration(i) == Last(CallsOf(i)).time - CallsOf(i)[1].time

CeilDiv(a, b)  == (a + b - 1) \div b
FloorDiv(a, b) == a \div b

\* ------------------------------------------------------------------ C1
\* C1 (throttle window bound): when the wrapper is only called (no cancel,
\* no flush), delay > 0 and the clock does not go back, any two executions
\* of the callable of a throttled invoker, immediate or timer-driven, under
\* any leading/trailing options, are at least delay apart.
C1_WindowBound ==
    \A i \in Ids :
        Throttled(i) /\ inv[i].delay > 0 =>
            \A m, n \in 1 .. Len(ExecsOf(i)) :
                m < n => ExecsOf(i)[n].time - ExecsOf(i)[m].time >= inv[i].delay

\* an immediate execution and, exactly delay later, a timer-driven one
C1_Witness ==
    \E i \in Ids :
        /\ Throttled(i) /\ Len(ExecsOf(i)) >= 2
        /\ ExecsOf(i)[1].via = "invoke" /\ ExecsOf(i)[2].via = "timer"
        /\ ExecsOf(i)[2].time - ExecsOf(i)[1].time = inv[i].delay

\* ------------------------------------------------------------------ C2
\* C2 as stated (throttle rate bound): with leading = trailing = true, the
\* callable has run at most ceil(totalDuration / delay) + 1 times, for every
\* totalDuration, 0 and the multiples of delay included.
C2_RateBoundAsStated ==
    \A i \in Ids :
        Throttled(i) /\ inv[i].leading /\ inv[i].trailing /\ Len(CallsOf(i)) >= 1 =>
            Len(ExecsOf(i)) <= CeilDiv(TotalDuration(i), inv[i].delay) + 1

\* C2 as amended: with leading = trailing = true the callable has run at
\* most floor(totalDuration / delay) + 2 times; that is
\* ceil(totalDuration / delay) + 1 unless totalDuration is a multiple of
\* delay (0 included), where one more execution is possible.
C2_RateBound ==
    \A i \in Ids :
        Throttled(i) /\ inv[i].leading /\ inv[i].trailing /\ Len(CallsOf(i)) >= 1 =>
            Len(ExecsOf(i)) <= FloorDiv(TotalDuration(i), inv[i].delay) + 2

\* the bound is met: calls spanning exactly one delay, three executions
C2_Witness ==
    \E i \in Ids :
        /\ Throttled(i) /\ inv[i].leading /\ inv[i].trailing
        /\ Len(CallsOf(i)) >= 2
        /\ TotalDuration(i) = inv[i].delay
        /\ Len(ExecsOf(i)) = 3

\* ------------------------------------------------------------------ C3
\* C3 (debounce quiet period): with immediate = false no call of the wrapper
\* executes the callable itself; a timer-driven execution is that of the
\* most recent call, at least delay after it (no call came in between); so
\* while the calls keep coming less than delay apart, neither a call nor a
\* timer has executed the callable.
C3_QuietPeriod ==
    \A i \in Ids :
        Debounced(i) /\ ~inv[i].immediate =>
            /\ \A n \in 1 .. Len(execs) :
                    execs[n].id = i => execs[n].via # "invoke"
            /\ (lastOp.op = "fire" /\ lastOp.id = i) =>
                    /\ Len(ExecsOf(i)) >= 1
                    /\ Last(ExecsOf(i)).via = "timer"
                    /\ Last(ExecsOf(i)).time = now
                    /\ Last(ExecsOf(i)).args = Last(CallsOf(i)).args
                    /\ now >= Last(CallsOf(i)).time + inv[i].delay
                    /\ now >= inv[i].lastCallTime + inv[i].delay
            /\ (Len(CallsOf(i)) >= 1 /\ Burst(i)
                    /\ now - Last(CallsOf(i)).time < inv[i].delay) =>
                    \A n \in 1 .. Len(execs) :
                        execs[n].id = i => execs[n].via = "flush"

\* the timer of the second of two calls has just run the callable
C3_Witness ==
    \E i \in Ids :
        /\ Debounced(i) /\ ~inv[i].immediate
        /\ lastOp.op = "fire" /\ lastOp.id = i
        /\ Len(CallsOf(i)) >= 2
        /\ Len(ExecsOf(i)) = 1

\* ------------------------------------------------------------------ C4
\* C4 (debounce collapse): with immediate = false, after N >= 1 calls each
\* less than delay after the one before: nothing has run while the timer of
\* the Nth call is scheduled, and that timer is due exactly delay after the
\* Nth call; once it has fired the callable has run exactly once, by that
\* timer, not before its deadline, with the arguments and receiver of the
\* Nth call.
C4_Collapse ==
    \A i \in Ids :
        Debounced(i) /\ ~inv[i].immediate /\ Len(CallsOf(i)) >= 1 /\ Burst(i) =>
            IF Outstanding(i) # {}
            THEN /\ ExecsOf(i) = <<>>
                 /\ \A t \in Outstanding(i) :
                        t.due = Last(CallsOf(i)).time + inv[i].delay
            ELSE /\ Len(ExecsOf(i)) = 1
                 /\ ExecsOf(i)[1].via = "timer"
                 /\ ExecsOf(i)[1].args = Last(CallsOf(i)).args
                 /\ ExecsOf(i)[1].ctx = Last(CallsOf(i)).ctx
                 /\ ExecsOf(i)[1].due = Last(CallsOf(i)).time + inv[i].delay
                 /\ ExecsOf(i)[1].time >= ExecsOf(i)[1].due

\* three calls in a burst, then the one execution, on time
C4_Witness ==
    \E i \in Ids :
        /\ Debounced(i) /\ ~inv[i].immediate /\ Burst(i)
        /\ Len(CallsOf(i)) = 3
        /\ CallsOf(i)[3].time > CallsOf(i)[1].time
        /\ Len(ExecsOf(i)) = 1
        /\ ExecsOf(i)[1].time = CallsOf(i)[3].time + inv[i].delay

\* ------------------------------------------------------------------ C5
\* C5 (debounce immediate), as stated: with immediate = true, when the
\* wrapper is only called (no cancel, no flush), after N >= 1 calls each less
\* than delay after the one before the callable has run exactly once: inside
\* the first call, at its time, with its arguments and receiver; the later
\* calls only rearm the timer (one is scheduled, for delay after the latest
\* call, until it fires and executes nothing).  The callable may throw.
C5_Immediate ==
    \A i \in Ids :
        Debounced(i) /\ inv[i].immediate /\ Len(CallsOf(i)) >= 1 /\ Burst(i) =>
            /\ Len(ExecsOf(i)) = 1
            /\ ExecsOf(i)[1].via = "invoke"
            /\ ExecsOf(i)[1].time = CallsOf(i)[1].time
            /\ ExecsOf(i)[1].args = CallsOf(i)[1].args
            /\ ExecsOf(i)[1].ctx = CallsOf(i)[1].ctx
            /\ \A t \in Outstanding(i) :
                    t.due = Last(CallsOf(i)).time + inv[i].delay
            /\ lastOp.op = "invoke" => Cardinality(Outstanding(i)) = 1

\* ------------------------------------------------------------------ C6
\* C6 (cancel suppresses): for both policies, a timer that was scheduled when
\* cancel() was called is not scheduled any more, and in no later state has
\* it run the call it captured.
C6_CancelSuppresses ==
    \A k \in cancelled :
        /\ \A t \in timers : t.call # k
        /\ \A n \in 1 .. Len(execs) :
                execs[n].call = k => execs[n].via # "timer"

\* a timer was cancelled, and time has passed beyond its deadline
C6_Witness ==
    \E k \in cancelled :
        /\ now > calls[k].time + inv[calls[k].id].delay
        /\ lastOp.op = "tick"

\* ------------------------------------------------------------------ C7
\* C7 (flush forces): for both policies and every configuration, a flush()
\* called while a timer is scheduled executes the callable exactly once,
\* inside the flush, and leaves no timer scheduled and the timer slot null;
\* a timer that was scheduled at a flush() is never run afterwards.
C7_FlushForces ==
    /\ [][\A i \in Ids :
            (lastOp'.op = "flush" /\ lastOp'.id = i /\ Outstanding(i) # {}) =>
                /\ Len(execs') = Len(execs) + 1
                /\ Last(execs').id = i
                /\ Last(execs').via = "flush"
                /\ Last(execs').time = now
                /\ Outstanding(i)' = {}
                /\ inv'[i].timeoutId = Null]_vars
    /\ [](\A k \in flushed :
            /\ \A t \in timers : t.call # k
            /\ \A n \in 1 .. Len(execs) :
                    execs[n].call = k => execs[n].via # "timer")

\* a flush of an immediate debounce has just executed the callable a
\* second time (the first call of the burst had executed it)
C7_Witness ==
    \E i \in Ids :
        /\ Debounced(i) /\ inv[i].immediate
        /\ lastOp.op = "flush" /\ flushed # {}
        /\ Len(ExecsOf(i)) = 2
        /\ Last(ExecsOf(i)).via = "flush" /\ Last(ExecsOf(i)).time = now
        /\ Outstanding(i) = {}

\* ------------------------------------------------------------------ C8
\* C8 (call counting): for both policies, getCallCount() is the number of
\* calls of the wrapper made so far, whatever they did (executed, armed a
\* timer, were suppressed, or the callable threw); cancel, flush and timer
\* fires, which make no call, leave it alone.
C8_CallCounting ==
    \A i \in Ids : getCallCount(i) = Len(CallsOf(i))

\* three calls counted, fewer executions, and the callable has just thrown
\* inside the third
C8_Witness ==
    \E i \in Ids :
        /\ getCallCount(i) = 3
        /\ Len(ExecsOf(i)) < 3
        /\ lastOp.op = "invoke" /\ lastOp.threw

\* ------------------------------------------------------------------ C9
\* C9 (single pending timer): with a callable that returns normally and does
\* not call back into its invoker, in every state reachable by calls,
\* cancel, flush and timer fires each invoker has at most one callback
\* scheduled, and its timer slot holds a handle exactly when one is
\* scheduled (the handle of that one).
C9_SinglePendingTimer ==
    \A i \in Ids :
        /\ Cardinality(Outstanding(i)) <= 1
        /\ Truthy(inv[i].timeoutId) <=> Outstanding(i) # {}
        /\ \A t \in Outstanding(i) : t.id = inv[i].timeoutId

\* a throttled invoker was called twice more while its timer was scheduled
C9_Witness ==
    \E i \in Ids :
        /\ Throttled(i)
        /\ Cardinality(Outstanding(i)) = 1
        /\ \A t \in Outstanding(i) : t.call + 2 = Len(calls)
        /\ lastOp.op = "invoke"

\* ----------------------------------------------------------------- C10
\* C10 (flush arguments): for both policies, an execution made by flush()
\* received the arguments and the receiver of that flush() call, which are
\* those of no call of the wrapper: not of the call the pending timer had
\* captured, not of the latest call.
C10_FlushArguments ==
    \A n \in 1 .. Len(execs) :
        execs[n].via = "flush" =>
            /\ \E in \in FlushInputs :
                    execs[n].args = in.args /\ execs[n].ctx = in.ctx
            /\ \A k \in 1 .. Len(calls) :
                    execs[n].args # calls[k].args /\ execs[n].ctx # calls[k].ctx

\* a throttled invoker was flushed while the timer of its second call was
\* scheduled
C10_Witness ==
    \E i \in Ids :
        /\ Throttled(i)
        /\ lastOp.op = "flush" /\ 2 \in flushed
        /\ Last(ExecsOf(i)).via = "flush"
        /\ Last(ExecsOf(i)).args = <<>>

\* ----------------------------------------------------------------- C11
\* the timer-driven executions of invoker i replay the call that scheduled
\* the timer: a call that found no timer scheduled, with its arguments and
\* its receiver
ReplaysArmingCall(i) ==
    \A n \in 1 .. Len(execs) :
        (execs[n].id = i /\ execs[n].via = "timer") =>
            /\ execs[n].call \in 1 .. Len(calls)
            /\ calls[execs[n].call].id = i
            /\ calls[execs[n].call].pending = {}
            /\ execs[n].args = calls[execs[n].call].args
            /\ execs[n].ctx = calls[execs[n].call].ctx

\* call number k was never executed: no execution received its arguments or
\* its receiver
NeverExecuted(k) ==
    \A n \in 1 .. Len(execs) :
        execs[n].args # calls[k].args /\ execs[n].ctx # calls[k].ctx

\* C11 as stated (throttle): a timer-driven execution replays the call that
\* scheduled the timer, and a call that arrives while a timer is scheduled,
\* at whatever time, is never executed.
C11_TrailingArgumentsAsStated ==
    \A i \in Ids : Throttled(i) =>
        /\ ReplaysArmingCall(i)
        /\ \A k \in 1 .. Len(calls) :
              (calls[k].id = i /\ calls[k].pending # {}) => NeverExecuted(k)

\* C11 (throttle trailing arguments): a timer-driven execution replays the
\* arguments and the receiver of the call that scheduled the timer, and a
\* call that arrives while the timer is scheduled and before its deadline
\* is never executed.  (A call that arrives at or after the deadline of a
\* timer that has not run yet executes at once, with its own arguments.)
C11_TrailingArguments ==
    \A i \in Ids : Throttled(i) =>
        /\ ReplaysArmingCall(i)
        /\ \A k \in 1 .. Len(calls) :
              (calls[k].id = i /\ \E d \in calls[k].pending : calls[k].time < d)
                  => NeverExecuted(k)

\* the timer of call 1 ran after call 2 had arrived before its deadline
C11_Witness ==
    \E i \in Ids :
        /\ Throttled(i)
        /\ Len(calls) >= 2 /\ calls[1].id = i /\ calls[2].id = i
        /\ \E d \in calls[2].pending : calls[2].time < d
        /\ lastOp.op = "fire"
        /\ Len(execs) >= 1 /\ Last(execs).via = "timer" /\ Last(execs).call = 1
        /\ Last(execs).time >= calls[2].time


\* ----------------------------------------------------------------- C12
\* the scripted burst is over: its five calls are made and no timer is left
ScenarioDone == Len(calls) = Len(ScenarioTimes) /\ timers = {}

\* the leading execution of the burst: the first call, executed as it arrives
ScenarioLeading ==
    /\ execs[1].via = "invoke" /\ execs[1].call = 1
    /\ execs[1].args = calls[1].args /\ execs[1].time = calls[1].time

\* C12 as stated: throttle(fn, 100) with default options called at 0, 30,
\* 60, 90, 120 executes fn exactly twice in total, at 0 (leading) and once
\* from the timer, replaying the arguments of the call at 30.
C12_ScenarioAsStated ==
    ScenarioDone =>
        /\ Len(execs) = 2
        /\ ScenarioLeading
        /\ execs[2].via = "timer" /\ execs[2].args = calls[2].args

\* C12 (throttle scenario): throttle(fn, 100) with default options called at
\* 0, 30, 60, 90, 120 executes fn at 0 (leading) and then either
\*  - three times in total, when the timer of the call at 30, due at 100,
\*    runs before the call at 120 is made: from that timer, replaying the
\*    call at 30, and from a second timer the call at 120 schedules, due one
\*    delay after the first trailing execution and replaying the call at 120;
\*  - or twice in total, when that timer has not run by the call at 120:
\*    the call at 120 clears it and executes at once with its own arguments.
C12_Scenario ==
    ScenarioDone =>
        /\ ScenarioLeading
        /\ \/ /\ Len(execs) = 3
              /\ execs[2].via = "timer" /\ execs[2].call = 2
              /\ execs[2].args = calls[2].args
              /\ execs[2].due = calls[1].time + inv[1].delay
              /\ execs[2].time >= execs[2].due /\ execs[2].time <= calls[5].time
              /\ execs[3].via = "timer" /\ execs[3].call = 5
              /\ execs[3].args = calls[5].args
              /\ execs[3].due = execs[2].time + inv[1].delay
              /\ execs[3].time >= execs[3].due
           \/ /\ Len(execs) = 2
              /\ execs[2].via = "invoke" /\ execs[2].call = 5
              /\ execs[2].args = calls[5].args
              /\ execs[2].time = calls[5].time

\* the burst is over with both timers run on time: executions at 0, 100, 200
C12_Witness ==
    /\ ScenarioDone
    /\ Len(execs) = 3
    /\ calls[5].time = calls[1].time + 120
    /\ execs[2].time = calls[1].time + 100
    /\ execs[3].time = calls[1].time + 200


\* ----------------------------------------------------------------- C13
\* C13 (cancel postcondition): whatever the state cancel() is called in, it
\* executes nothing and leaves invoker i with no callback scheduled and an
\* empty timer slot; for throttle, lastCall is back at the never-called
\* sentinel.
C13_CancelPostcondition ==
    \A i \in Ids :
        (lastOp.op = "cancel" /\ lastOp.id = i) =>
            /\ lastOp.ran = 0
            /\ Outstanding(i) = {}
            /\ ~Truthy(inv[i].timeoutId)
            /\ Throttled(i) => inv[i].lastCall = NeverCalled

\* cancel() has just cleared the timer of call 2 of a throttled invoker
\* whose callable had run (lastCall was set)
C13_Witness ==
    \E i \in Ids :
        /\ Throttled(i)
        /\ lastOp.op = "cancel" /\ lastOp.id = i
        /\ ExecsOf(i) # <<>>
        /\ cancelled = {2}
        /\ Len(calls) = 2


\* ----------------------------------------------------------------- C14
\* the step is a call of cancel() or flush() (op) of invoker i made while the
\* host holds no timer of i
IdleStep(op, i) ==
    /\ lastOp'.op = op /\ lastOp'.id = i
    /\ Outstanding(i) = {}

\* the step raises nothing, executes nothing and schedules nothing
Silent(i) ==
    /\ ~lastOp'.threw
    /\ execs' = execs
    /\ timers' = timers

\* C14 as stated: cancel() and flush() called while no timer is pending
\* raise nothing, execute nothing and leave the pending timer, lastCall and
\* callCount of the invoker as they were.
C14_IdleNoOpAsStated ==
    [][\A i \in Ids : \A op \in {"cancel", "flush"} :
          IdleStep(op, i) =>
              /\ Silent(i)
              /\ ~Truthy(inv'[i].timeoutId)
              /\ inv'[i].lastCall = inv[i].lastCall
              /\ inv'[i].callCount = inv[i].callCount]_vars

\* C14 (idle cancel and flush): called while no timer is pending, flush()
\* of either policy and cancel() of debounce raise nothing, execute nothing
\* and leave every closure variable as it was (cancel() of debounce turns an
\* undefined slot into null, both "no timer").  cancel() of throttle raises
\* and executes nothing and leaves slot and callCount alone, but sets
\* lastCall to the never-called sentinel, whatever it was.
C14_IdleNoOp ==
    [][\A i \in Ids :
          /\ IdleStep("flush", i) => Silent(i) /\ inv'[i] = inv[i]
          /\ (IdleStep("cancel", i) /\ Debounced(i)) =>
                 /\ Silent(i)
                 /\ ~Truthy(inv[i].timeoutId)
                 /\ inv'[i] = [inv[i] EXCEPT !.timeoutId = Null]
          /\ (IdleStep("cancel", i) /\ Throttled(i)) =>
                 /\ Silent(i)
                 /\ inv'[i] = [inv[i] EXCEPT !.lastCall = NeverCalled]]_vars

\* a throttled invoker whose callable had run at time 1 or later was
\* cancelled with no timer ever pending at a cancel() or flush(): lastCall,
\* which held the time of that execution, is the sentinel again
C14_Witness ==
    \E i \in Ids :
        /\ Throttled(i)
        /\ lastOp.op = "cancel" /\ lastOp.id = i
        /\ cancelled = {} /\ flushed = {}
        /\ ExecsOf(i) # <<>> /\ Last(ExecsOf(i)).time >= 1
        /\ Outstanding(i) = {}
        /\ inv[i].lastCall = NeverCalled


\* ----------------------------------------------------------------- C15
\* C15 (a failing callable leaves no stale armed state), as stated: after a
\* handler in which the callable threw, the timer slot of the invoker holds
\* no handle, and a flush() called while the host holds no timer of the
\* invoker executes nothing.
C15_NoStaleArmedState ==
    /\ [](\A i \in Ids :
              (lastOp.threw /\ lastOp.id = i) => ~Truthy(inv[i].timeoutId))
    /\ [][\A i \in Ids : IdleStep("flush", i) => execs' = execs]_vars


\* ----------------------------------------------------------------- C16
\* C16 (re-entrant cancel and flush), as stated: when the callable, run by a
\* timer or by flush(), calls cancel() or flush() of its own invoker, the
\* nested call executes nothing (the handler made exactly one execution) and
\* the invoker is left with an empty slot and no timer scheduled.
C16_ReentrantCancelFlush ==
    \A i \in Ids :
        (/\ lastOp.id = i
         /\ lastOp.op \in {"fire", "flush"}
         /\ lastOp.did \in {"cancel", "flush"}) =>
            /\ lastOp.ran = 1
            /\ ~Truthy(inv[i].timeoutId)
            /\ Outstanding(i) = {}

\* ----------------------------------------------------------------- C17
\* C17 (timer ownership under a re-entrant call), as stated: when the
\* callable, run by a timer, calls the wrapper of its own invoker, every
\* timer the host holds for the invoker once the callback has returned is
\* the one in its slot, and there is at most one.
C17_NestedTimerRecorded ==
    \A i \in Ids :
        (lastOp.id = i /\ lastOp.op = "fire" /\ lastOp.did = "invoke") =>
            /\ Cardinality(Outstanding(i)) <= 1
            /\ \A t \in Outstanding(i) : t.id = inv[i].timeoutId


\* ----------------------------------------------------------------- C18
\* invoker i is ARMED: the host holds a timer of it; otherwise it is IDLE
Armed(i) == Outstanding(i) # {}

\* C18 (state machine shape): every invoker starts IDLE; in every reachable
\* state each of its operations can be taken (a call of the wrapper and
\* flush() as long as the behaviour has calls and executions left, the only
\* limits, which are those of this model); and an ARMED invoker becomes IDLE
\* only in a step of its own that is a timer fire, a cancel(), a flush(), or
\* a call of the wrapper that executes the callable at once.
C18_StateMachineShape ==
    /\ \A i \in Ids : ~Armed(i) /\ ~Truthy(inv[i].timeoutId)
    /\ [](\A i \in Ids :
              /\ ENABLED Cancel(i)
              /\ Len(calls) < MaxCalls =>
                     ENABLED (\E in \in CallInputs(Len(calls) + 1), beh \in outcomes :
                                  Invoke(i, in, beh))
              /\ Len(execs) < MaxExecs =>
                     ENABLED (\E in \in FlushInputs, beh \in outcomes :
                                  Flush(i, in, beh)))
    /\ [][\A i \in Ids :
              (Armed(i) /\ ~Armed(i)') =>
                  /\ lastOp'.id = i
                  /\ \/ lastOp'.op \in {"fire", "cancel", "flush"}
                     \/ lastOp'.op = "invoke" /\ lastOp'.ran = 1]_vars

\* an ARMED throttled invoker has just become IDLE by a call that executed
\* at once, after an earlier timer of it had fired
C18_Witness ==
    \E i \in Ids :
        /\ Throttled(i)
        /\ lastOp.op = "invoke" /\ lastOp.id = i /\ lastOp.ran = 1
        /\ Last(calls).pending # {}
        /\ ~Armed(i)
        /\ \E n \in 1 .. Len(execs) : execs[n].via = "timer"


\* ----------------------------------------------------------------- C19
\* the timer the wrapper scheduled in call number k is in the host's table
Scheduled(k) == \E t \in timers : t.call = k

\* the timer of call k has run: the invoker of call k is IDLE with an empty
\* slot, and the callable was executed from that timer exactly once, with
\* the call it had captured (never, for a debounce built with immediate)
FiredOnce(k) ==
    LET i == calls[k].id
        n == Cardinality({m \in 1 .. Len(execs) :
                              execs[m].via = "timer" /\ execs[m].call = k})
    IN  /\ k \in 1 .. Len(calls)
        /\ ~Scheduled(k)
        /\ Outstanding(i) = {} /\ ~Truthy(inv[i].timeoutId)
        /\ n = (IF inv[i].immediate THEN 0 ELSE 1)
        /\ \A m \in 1 .. Len(execs) :
              (execs[m].via = "timer" /\ execs[m].call = k) =>
                  execs[m].args = calls[k].args /\ execs[m].ctx = calls[k].ctx

\* C19 (pending work eventually runs): when time passes and the host runs
\* the callbacks that are due, a timer scheduled by call k, once no further
\* call of the wrapper is made (cancel() and flush() are never called), is
\* eventually run: the invoker is IDLE again and call k was executed exactly
\* once (not at all by the timer of a debounce built with immediate).
C19_PendingWorkRuns ==
    \A k \in 1 .. MaxCalls : \A n \in 1 .. MaxCalls :
        (Scheduled(k) /\ Len(calls) = n) ~> (Len(calls) > n \/ FiredOnce(k))

\* the timer the last call scheduled at the end of the clock's range ran
\* past it, executing that call
C19_Witness ==
    /\ Len(calls) = MaxCalls
    /\ now > MaxTime
    /\ lastOp.op = "fire"
    /\ Last(calls).time = MaxTime
    /\ FiredOnce(MaxCalls)
    /\ Last(execs).call = MaxCalls /\ Last(execs).via = "timer"


\* ----------------------------------------------------------------- C20
\* C20 (invoker independence): a step of invoker i (a call of its wrapper,
\* its cancel(), its flush(), the fire of one of its timers) leaves the
\* closure variables (slot, lastCall, callCount and the rest) and the
\* scheduled timers of every other invoker j as they were, also when i and j
\* were built from the same callable with the same delay and options.
C20_InvokerIndependence ==
    [][\A i \in Ids : \A j \in Ids \ {i} :
          lastOp'.id = i =>
              /\ inv'[j] = inv[j]
              /\ Outstanding(j)' = Outstanding(j)]_vars

\* both invokers had a timer scheduled; the one of invoker 1 has just been
\* cancelled and the one of invoker 2 is still there
C20_Witness ==
    /\ Ids = {1, 2}
    /\ Len(calls) = 2 /\ calls[1].id # calls[2].id
    /\ lastOp.op = "cancel" /\ lastOp.id = 1
    /\ cancelled # {}
    /\ Outstanding(1) = {}
    /\ Outstanding(2) # {} /\ Truthy(inv[2].timeoutId)
    /\ inv[2].callCount = 1


\* ----------------------------------------------------------------- C21
\* C21 (throttle leading edge), as stated: the first call ever made of a
\* wrapper built with leading = true executes the callable in that call,
\* with the arguments and the receiver of that call, whatever the clock
\* reads.
C21_LeadingEdge ==
    \A i \in Ids :
        (Throttled(i) /\ inv[i].leading /\ CallsOf(i) # <<>>) =>
            /\ ExecsOf(i) # <<>>
            /\ ExecsOf(i)[1].via = "invoke"
            /\ ExecsOf(i)[1].time = CallsOf(i)[1].time
            /\ ExecsOf(i)[1].args = CallsOf(i)[1].args
            /\ ExecsOf(i)[1].ctx = CallsOf(i)[1].ctx


\* ----------------------------------------------------------------- C22
\* the first call of the wrapper of invoker i has just returned
AfterFirstCall(i) ==
    /\ lastOp.op = "invoke"
    /\ lastOp.id = i
    /\ Len(CallsOf(i)) = 1

\* C22 (throttle, leading = false, first call): the first call executes
\* nothing and records its own time as lastCall; with trailing = true it
\* leaves exactly one timer, due a full delay later and holding the call's
\* arguments and receiver, and with trailing = false it leaves none; the
\* first call is never executed in the call itself, and a timer execution of
\* it uses its arguments and happens no earlier than a full delay after it.
C22_FirstCallNotLeading ==
    \A i \in Ids :
        (Throttled(i) /\ ~inv[i].leading /\ CallsOf(i) # <<>>) =>
            LET c == CallsOf(i)[1]
            IN  /\ AfterFirstCall(i) =>
                    /\ lastOp.ran = 0
                    /\ inv[i].lastCall = c.time
                    /\ inv[i].trailing =>
                           /\ Cardinality(Outstanding(i)) = 1
                           /\ \A t \in Outstanding(i) :
                                  /\ t.due = c.time + inv[i].delay
                                  /\ t.args = c.args
                                  /\ t.ctx = c.ctx
                                  /\ inv[i].timeoutId = t.id
                    /\ ~inv[i].trailing =>
                           /\ Outstanding(i) = {}
                           /\ ~Truthy(inv[i].timeoutId)
                /\ \A n \in 1 .. Len(execs) :
                       (execs[n].id = i /\ execs[n].via # "flush"
                          /\ calls[execs[n].call] = c) =>
                           /\ execs[n].via = "timer"
                           /\ execs[n].args = c.args
                           /\ execs[n].ctx = c.ctx
                           /\ execs[n].due = c.time + inv[i].delay
                           /\ execs[n].time >= c.time + inv[i].delay

\* the first call of a wrapper built with leading = false was executed by its
\* timer, a full delay or more after it was made
C22_Witness ==
    \E i \in Ids, n \in 1 .. Len(execs) :
        /\ Throttled(i) /\ ~inv[i].leading
        /\ execs[n].id = i /\ execs[n].via = "timer"
        /\ calls[execs[n].call] = CallsOf(i)[1]
        /\ execs[n].args = CallsOf(i)[1].args


\* ----------------------------------------------------------------- C23
\* invoker i was built with leading = false, its last execution was done by
\* a trailing timer, which put lastCall back to 0, and nothing is scheduled
AfterTrailingReset(i) ==
    /\ Throttled(i) /\ ~inv[i].leading
    /\ ExecsOf(i) # <<>>
    /\ Last(ExecsOf(i)).via = "timer"
    /\ inv[i].lastCall = 0
    /\ Outstanding(i) = {}

\* C23 (throttle, leading = false, after a trailing execution), as stated:
\* the call that follows the trailing execution executes the callable in the
\* call itself.
C23_NextCallLeadsAsStated ==
    [][\A i \in Ids :
          (AfterTrailingReset(i) /\ lastOp'.op = "invoke" /\ lastOp'.id = i) =>
              /\ lastOp'.ran = 1
              /\ Last(execs').via = "invoke"
              /\ Last(execs').args = Last(calls').args]_vars

\* C23, amended: the timer callback of a wrapper built with leading = false
\* leaves lastCall at 0, and the call that follows is treated as a first call
\* again: it executes nothing, records its own time as lastCall and arms one
\* timer for the full delay that holds its own arguments and receiver.
C23_NextCallLeads ==
    [][\A i \in Ids :
          /\ (Throttled(i) /\ ~inv[i].leading
                /\ lastOp'.op = "fire" /\ lastOp'.id = i) =>
                 inv'[i].lastCall = 0
          /\ (AfterTrailingReset(i) /\ lastOp'.op = "invoke" /\ lastOp'.id = i) =>
                 /\ lastOp'.ran = 0
                 /\ execs' = execs
                 /\ inv'[i].lastCall = now
                 /\ Cardinality(Outstanding(i)') = 1
                 /\ \A t \in Outstanding(i)' :
                        /\ t.due = now + inv[i].delay
                        /\ t.args = Last(calls').args
                        /\ t.ctx = Last(calls').ctx
                        /\ inv'[i].timeoutId = t.id]_vars

\* a call arrived after a trailing execution of a wrapper built with
\* leading = false and armed a timer instead of executing
C23_Witness ==
    \E i \in Ids :
        /\ Throttled(i) /\ ~inv[i].leading
        /\ lastOp.op = "invoke" /\ lastOp.id = i /\ lastOp.ran = 0
        /\ ExecsOf(i) # <<>>
        /\ Last(ExecsOf(i)).via = "timer"
        /\ Last(ExecsOf(i)).time < now
        /\ Last(calls).pending = {}
        /\ \E t \in Outstanding(i) : t.call = Len(calls)


\* ----------------------------------------------------------------- C24
\* lastCall of invoker i is the time of its most recent execution
AtLastExecution(i) ==
    /\ ExecsOf(i) # <<>>
    /\ inv[i].lastCall = Last(ExecsOf(i)).time

\* lastCall of invoker i is the time of a call of the wrapper that was not
\* executed in the call itself
AtUnexecutedCall(i) ==
    \E k \in 1 .. Len(calls) :
        /\ calls[k].id = i
        /\ calls[k].time = inv[i].lastCall
        /\ \A n \in 1 .. Len(execs) :
               ~(execs[n].via = "invoke" /\ execs[n].call = k)

\* C24 (meaning of lastCall), as stated: in every reachable state lastCall of
\* a throttled invoker is 0 or the time of its most recent execution.
C24_LastCallMeaningAsStated ==
    \A i \in Ids :
        Throttled(i) => (inv[i].lastCall = 0 \/ AtLastExecution(i))

\* C24, amended: in every reachable state lastCall of a throttled invoker is
\* 0, or the time of its most recent execution, or, for a wrapper built with
\* leading = false only, the time of a call that executed nothing and opened
\* the window in which no execution has happened since.
C24_LastCallMeaning ==
    \A i \in Ids :
        Throttled(i) =>
            \/ inv[i].lastCall = 0
            \/ AtLastExecution(i)
            \/ /\ ~inv[i].leading
               /\ AtUnexecutedCall(i)
               /\ \A n \in 1 .. Len(execs) :
                      execs[n].id = i => execs[n].time <= inv[i].lastCall

\* a wrapper built with leading = false has executed before, and lastCall is
\* now the later time of a call that executed nothing
C24_Witness ==
    \E i \in Ids :
        /\ Throttled(i) /\ ~inv[i].leading
        /\ inv[i].lastCall > 0
        /\ ExecsOf(i) # <<>>
        /\ Last(ExecsOf(i)).time < inv[i].lastCall
        /\ AtUnexecutedCall(i)

\* ----------------------------------------------------------------- C25
\* what the wrapper of invoker i computes as remaining for a call made now
Remaining(i) ==
    LET lastCall == IF inv[i].lastCall = 0 /\ ~inv[i].leading
                    THEN now ELSE inv[i].lastCall
    IN  inv[i].delay - (now - lastCall)

\* C25 (throttle, immediate execution supersedes the pending timer): a call
\* that arrives with remaining <= 0 while a timer of the invoker is still
\* scheduled removes that timer, clears the slot, sets lastCall to now and
\* executes the callable once in the call with its own arguments and
\* receiver; the call the removed timer had captured is never executed.
C25_SupersedesTimer ==
    /\ [][\A i \in Ids :
              (Throttled(i) /\ Armed(i) /\ Remaining(i) <= 0
                 /\ lastOp'.op = "invoke" /\ lastOp'.id = i) =>
                  /\ Outstanding(i)' = {}
                  /\ inv'[i].timeoutId = Null
                  /\ inv'[i].lastCall = now
                  /\ lastOp'.ran = 1
                  /\ Last(execs').via = "invoke"
                  /\ Last(execs').time = now
                  /\ Last(execs').args = Last(calls').args
                  /\ Last(execs').ctx = Last(calls').ctx]_vars
    /\ [](\A k \in 1 .. Len(calls) :
              (Throttled(calls[k].id)
                 /\ \E n \in 1 .. Len(execs) :
                        execs[n].via = "invoke" /\ execs[n].call = k) =>
                  \A j \in calls[k].held : NeverExecuted(j))

\* a call found a timer at its deadline, executed at once, and the invoker
\* went on: a later call armed a new timer that has executed too, while the
\* superseded call never was
C25_Witness ==
    \E k, m \in 1 .. Len(calls) :
        /\ Throttled(calls[k].id)
        /\ \E d \in calls[k].pending : calls[k].time >= d
        /\ calls[k].held # {}
        /\ \A j \in calls[k].held : NeverExecuted(j)
        /\ \E n \in 1 .. Len(execs) :
               execs[n].via = "invoke" /\ execs[n].call = k
        /\ m > k
        /\ \E n \in 1 .. Len(execs) :
               execs[n].via = "timer" /\ execs[n].call = m


\* ----------------------------------------------------------------- C26
\* C26 (throttle, call inside an armed window), as stated: a call that
\* arrives while a timer of the invoker is scheduled and with
\* 0 < remaining <= delay executes nothing and changes nothing but callCount:
\* the host's timers (deadline and captured call included), the slot and
\* lastCall stay as they are.
C26_OnlyCounterChanges ==
    [][\A i \in Ids :
          (Throttled(i) /\ Armed(i)
             /\ 0 < Remaining(i) /\ Remaining(i) <= inv[i].delay
             /\ lastOp'.op = "invoke" /\ lastOp'.id = i) =>
              /\ execs' = execs
              /\ timers' = timers
              /\ inv' = [inv EXCEPT ![i].callCount = @ + 1]]_vars


\* ----------------------------------------------------------------- C27
\* C27 (throttle, deadline of the trailing timer): a call schedules a timer
\* only when none is scheduled for the invoker and trailing = true; the wait
\* is remaining = delay - (now - lastCall), so the timer is due exactly delay
\* after lastCall; the call executes nothing.  When the timer runs, the slot
\* is cleared and lastCall becomes the time of the run unless leading = false
\* (then it becomes 0).
C27_TimerDeadline ==
    [][\A i \in Ids : Throttled(i) =>
          /\ (lastOp'.op = "invoke" /\ lastOp'.id = i
                /\ Outstanding(i)' \ Outstanding(i) # {}) =>
                 /\ Outstanding(i) = {}
                 /\ ~Truthy(inv[i].timeoutId)
                 /\ inv[i].trailing
                 /\ lastOp'.ran = 0
                 /\ Cardinality(Outstanding(i)') = 1
                 /\ \A t \in Outstanding(i)' :
                        /\ t.due - now = Remaining(i)
                        /\ t.due = inv'[i].lastCall + inv[i].delay
                        /\ inv'[i].timeoutId = t.id
          /\ (lastOp'.op = "fire" /\ lastOp'.id = i) =>
                 /\ inv'[i].timeoutId = Null
                 /\ inv[i].leading => inv'[i].lastCall = now
                 /\ ~inv[i].leading => inv'[i].lastCall = 0]_vars

\* a timer armed for less than the full delay has run: it was due exactly
\* delay after the execution before it, and lastCall is the time of the run
C27_Witness ==
    \E i \in Ids :
        /\ Throttled(i) /\ inv[i].leading
        /\ lastOp.op = "fire" /\ lastOp.id = i
        /\ Len(ExecsOf(i)) >= 2
        /\ LET e == Last(ExecsOf(i))
               p == ExecsOf(i)[Len(ExecsOf(i)) - 1]
           IN  /\ e.via = "timer"
               /\ e.due = p.time + inv[i].delay
               /\ calls[e.call].time > p.time
               /\ e.due - calls[e.call].time < inv[i].delay
               /\ inv[i].lastCall = e.time
               /\ ~Truthy(inv[i].timeoutId)


\* ----------------------------------------------------------------- C28
\* C28 (throttle with a zero or negative delay): whatever leading and
\* trailing are, every call of the wrapper executes the callable in the call
\* itself with the call's own arguments and receiver, and no timer is ever
\* scheduled: the executions are the calls, one for one and in order.
C28_NoDelay ==
    \A i \in Ids :
        (Throttled(i) /\ inv[i].delay <= 0) =>
            /\ Outstanding(i) = {}
            /\ ~Truthy(inv[i].timeoutId)
            /\ Len(ExecsOf(i)) = Len(CallsOf(i))
            /\ \A k \in 1 .. Len(CallsOf(i)) :
                   /\ ExecsOf(i)[k].via = "invoke"
                   /\ ExecsOf(i)[k].time = CallsOf(i)[k].time
                   /\ ExecsOf(i)[k].args = CallsOf(i)[k].args
                   /\ ExecsOf(i)[k].ctx = CallsOf(i)[k].ctx

\* a wrapper built with delay 0 and leading = false has executed two calls
\* made at the same clock reading
C28_Witness ==
    \E i \in Ids :
        /\ Throttled(i) /\ inv[i].delay = 0 /\ ~inv[i].leading
        /\ Len(ExecsOf(i)) >= 2
        /\ ExecsOf(i)[1].time = ExecsOf(i)[2].time
        /\ ExecsOf(i)[1].time > 0
        /\ ExecsOf(i)[2].call = 2

\* ----------------------------------------------------------------- C29
\* C29 (throttle, clock regression): a call made with a clock reading earlier
\* than lastCall, so that remaining is larger than delay, is treated as a
\* call after the window: it removes the timer of the invoker if one is
\* scheduled, clears the slot, executes the callable once in the call with
\* its own arguments, and sets lastCall to the new reading.
C29_ClockRegression ==
    [][\A i \in Ids :
          (Throttled(i) /\ now < inv[i].lastCall
             /\ lastOp'.op = "invoke" /\ lastOp'.id = i) =>
              /\ Remaining(i) > inv[i].delay
              /\ Outstanding(i)' = {}
              /\ ~Truthy(inv'[i].timeoutId)
              /\ inv'[i].lastCall = now
              /\ lastOp'.ran = 1
              /\ Last(execs').via = "invoke"
              /\ Last(execs').time = now
              /\ Last(execs').args = Last(calls').args
              /\ Last(execs').ctx = Last(calls').ctx]_vars

\* a call made after the clock was set back, at a reading earlier than the
\* call whose timer was still scheduled, has executed at once and no timer
\* is left
C29_Witness ==
    \E i \in Ids :
        /\ Throttled(i)
        /\ lastOp.op = "invoke" /\ lastOp.id = i /\ lastOp.ran = 1
        /\ \E j \in Last(calls).held : Last(calls).time < calls[j].time
        /\ Last(execs).args = Last(calls).args
        /\ Outstanding(i) = {}
        /\ inv[i].lastCall = now

\* ----------------------------------------------------------------- C30
\* C30 (debounce rearm), as stated: in both immediate modes, when a call of
\* the wrapper is over (it returned, or the callable threw in it), exactly
\* one timer of the invoker is scheduled: the one this
\* call armed, held in the slot and due a full delay after the call; the
\* timers the call found are gone.
C30_Rearm ==
    \A i \in Ids :
        (Debounced(i) /\ lastOp.op = "invoke" /\ lastOp.id = i) =>
            /\ Cardinality(Outstanding(i)) = 1
            /\ \A t \in Outstanding(i) :
                   /\ t.call = Len(calls)
                   /\ t.due = Last(calls).time + inv[i].delay
                   /\ t.due = now + inv[i].delay
                   /\ t.args = Last(calls).args
                   /\ inv[i].timeoutId = t.id
                   /\ t.call \notin Last(calls).held


\* ----------------------------------------------------------------- C31
\* call number k was executed in the call itself, once, at its time and with
\* its own arguments and receiver
ExecutedInCall(k) ==
    /\ \E n \in 1 .. Len(execs) :
           /\ execs[n].via = "invoke" /\ execs[n].call = k
           /\ execs[n].id = calls[k].id
           /\ execs[n].time = calls[k].time
           /\ execs[n].args = calls[k].args
           /\ execs[n].ctx = calls[k].ctx
    /\ \A m, n \in 1 .. Len(execs) :
           (execs[m].via = "invoke" /\ execs[m].call = k
              /\ execs[n].via = "invoke" /\ execs[n].call = k) => m = n

\* C31 (debounce, immediate guard): with immediate = true a call of the
\* wrapper executes the callable in the call exactly when no timer of the
\* invoker was scheduled when the call arrived; the timer callback never
\* executes the callable, and when it has run no timer is scheduled and the
\* slot is empty, so that the next call executes again.
C31_ImmediateGuard ==
    \A i \in Ids :
        (Debounced(i) /\ inv[i].immediate) =>
            /\ \A k \in 1 .. Len(calls) :
                   calls[k].id = i =>
                       /\ calls[k].pending = {} => ExecutedInCall(k)
                       /\ calls[k].pending # {} =>
                              \A n \in 1 .. Len(execs) :
                                  ~(execs[n].via = "invoke" /\ execs[n].call = k)
            /\ \A n \in 1 .. Len(execs) :
                   execs[n].id = i => execs[n].via # "timer"
            /\ (lastOp.op = "fire" /\ lastOp.id = i) =>
                   /\ lastOp.ran = 0
                   /\ Outstanding(i) = {}
                   /\ ~Truthy(inv[i].timeoutId)

\* two calls were executed in the call, the second after the timer of the
\* first had run, with no cancel() or flush() in between; a third call, made
\* while the timer of the second was scheduled, was not
C31_Witness ==
    \E i \in Ids :
        /\ Debounced(i) /\ inv[i].immediate
        /\ cancelled = {} /\ flushed = {}
        /\ Len(calls) = 3 /\ Len(ExecsOf(i)) = 2
        /\ ExecutedInCall(1) /\ ExecutedInCall(2)
        /\ calls[2].time >= calls[1].time + inv[i].delay
        /\ calls[3].pending # {}


\* ----------------------------------------------------------------- C32
\* C32 (throttle window bound with cancel interleaved), as stated: with the
\* default options and any interleaving of calls of the wrapper, cancel() and
\* timer fires, two executions of the callable are never less than delay
\* apart.
C32_WindowBoundWithCancelAsStated ==
    \A i \in Ids :
        (Throttled(i) /\ inv[i].leading /\ inv[i].trailing /\ flushed = {}) =>
            \A m, n \in 1 .. Len(ExecsOf(i)) :
                m < n => ExecsOf(i)[n].time - ExecsOf(i)[m].time >= inv[i].delay


\* C32, amended: with the default options and any interleaving of calls of
\* the wrapper, cancel() and timer fires, an execution of the callable is at
\* least delay after the one before it unless cancel() was called in
\* between: cancel() puts lastCall back to 0, nothing else does, and an
\* execution that finds lastCall different from 0 is at least delay after
\* the execution before it.
C32_WindowBoundWithCancel ==
    [][\A i \in Ids :
          (Throttled(i) /\ inv[i].leading /\ inv[i].trailing /\ flushed' = {}) =>
              /\ (inv[i].lastCall # 0 /\ inv'[i].lastCall = 0) =>
                     lastOp'.op = "cancel" /\ lastOp'.id = i
              /\ (lastOp'.ran = 1 /\ lastOp'.id = i) =>
                     /\ inv'[i].lastCall = now
                     /\ now > 0
                     /\ (inv[i].lastCall # 0 /\ ExecsOf(i) # <<>>) =>
                            now - Last(ExecsOf(i)).time >= inv[i].delay]_vars

\* cancel() removed a timer, and later two calls were executed in the call,
\* the second a full delay or more after the first
C32_Witness ==
    \E i \in Ids :
        /\ Throttled(i) /\ inv[i].leading /\ inv[i].trailing
        /\ cancelled # {} /\ flushed = {}
        /\ lastOp.op = "invoke" /\ lastOp.id = i /\ lastOp.ran = 1
        /\ Len(ExecsOf(i)) = 2
        /\ ExecsOf(i)[1].call > 1
        /\ ExecsOf(i)[2].time - ExecsOf(i)[1].time >= inv[i].delay
        /\ inv[i].lastCall = now


\* ----------------------------------------------------------------- C33
\* C33 (executions never outnumber calls), as stated: for both policies and
\* every configuration, after any sequence of calls, cancel(), flush() and
\* timer fires, the callable has been executed at most callCount times.
C33_ExecsAtMostCallsAsStated ==
    \A i \in Ids : Len(ExecsOf(i)) <= getCallCount(i)

\* C33, amended: the callable has been executed at most callCount times by
\* a throttled invoker and by a debounced invoker built with immediate =
\* false; with immediate = true a call may be executed twice, in the call and
\* by a flush() of the timer it armed, and the callable has been executed at
\* most twice callCount times.
C33_ExecsAtMostCalls ==
    \A i \in Ids :
        /\ getCallCount(i) = Len(CallsOf(i))
        /\ ~(Debounced(i) /\ inv[i].immediate) =>
               Len(ExecsOf(i)) <= getCallCount(i)
        /\ (Debounced(i) /\ inv[i].immediate) =>
               /\ Len(ExecsOf(i)) <= getCallCount(i) + getCallCount(i)
               /\ Len(SelectSeq(ExecsOf(i), LAMBDA e : e.via = "invoke"))
                      <= getCallCount(i)
               /\ Len(SelectSeq(ExecsOf(i), LAMBDA e : e.via = "flush"))
                      <= Cardinality(flushed)

\* every call so far has been executed, by all three ways of executing: in
\* the call, by a timer and by flush()
C33_Witness ==
    \E i \in Ids :
        /\ ~(Debounced(i) /\ inv[i].immediate)
        /\ Len(ExecsOf(i)) = getCallCount(i)
        /\ \A v \in {"invoke", "timer", "flush"} :
               \E n \in 1 .. Len(execs) : execs[n].via = v


\* ----------------------------------------------------------------- C34
\* invoker i is throttled with leading = false and trailing = true, and
\* flush() has executed nothing so far
TrailingOnly(i) ==
    /\ Throttled(i) /\ ~inv[i].leading /\ inv[i].trailing
    /\ inv[i].delay > 0
    /\ flushed = {}

\* C34 (throttle, leading = false, trailing = true), as stated: under calls
\* of the wrapper, cancel() and timer fires that may be late, every execution
\* of the callable is timer-driven; no call executes it.
C34_NeverInCallAsStated ==
    \A i \in Ids :
        TrailingOnly(i) =>
            \A n \in 1 .. Len(execs) :
                execs[n].id = i => execs[n].via = "timer"

\* C34, amended: an execution is timer-driven unless a call found the timer
\* of the invoker still scheduled at or after its deadline: that call is
\* executed in the call itself (and removes the timer), and so is a call that
\* follows an execution in a call by delay or more with no timer fire and
\* no cancel() in between.  A call that finds lastCall at 0, or arrives
\* before the deadline of the timer it finds, is never executed in the call.
C34_NeverInCall ==
    \A i \in Ids :
        TrailingOnly(i) =>
            \A n \in 1 .. Len(ExecsOf(i)) :
                LET e == ExecsOf(i)[n]
                IN  e.via # "timer" =>
                        /\ e.via = "invoke"
                        /\ \/ /\ calls[e.call].pending # {}
                              /\ \A d \in calls[e.call].pending :
                                     calls[e.call].time >= d
                           \/ /\ n > 1
                              /\ calls[e.call].pending = {}
                              /\ ExecsOf(i)[n - 1].via = "invoke"
                              /\ e.time - ExecsOf(i)[n - 1].time >= inv[i].delay

\* after a timer-driven execution a call was executed in the call because
\* the timer it found was late
C34_Witness ==
    \E i \in Ids :
        /\ TrailingOnly(i)
        /\ \E n \in 1 .. Len(execs) : execs[n].via = "timer"
        /\ lastOp.op = "invoke" /\ lastOp.ran = 1
        /\ Last(execs).via = "invoke"
        /\ Last(calls).pending # {}

\* ----------------------------------------------------------------- C35
\* C35 (throttle, trailing = false): no timer of the invoker is ever
\* scheduled and the slot stays empty; flush() executes nothing; every
\* execution happens in a call of the wrapper, at the time of that call and
\* with its arguments and receiver, so a call that was not executed when it
\* was made is never executed.
C35_NeverDefers ==
    \A i \in Ids :
        (Throttled(i) /\ ~inv[i].trailing) =>
            /\ Outstanding(i) = {}
            /\ ~Truthy(inv[i].timeoutId)
            /\ (lastOp.op = "flush" /\ lastOp.id = i) => lastOp.ran = 0
            /\ \A n \in 1 .. Len(execs) :
                   execs[n].id = i =>
                       /\ execs[n].via = "invoke"
                       /\ execs[n].time = calls[execs[n].call].time
                       /\ execs[n].args = calls[execs[n].call].args
                       /\ execs[n].ctx = calls[execs[n].call].ctx
            /\ \A k \in 1 .. Len(calls) :
                   calls[k].id = i => (ExecutedInCall(k) \/ NeverExecuted(k))

\* of three calls the second, made inside the window of the first, was
\* dropped: the window has passed, flush() was called, and only the first
\* and the third were executed
C35_Witness ==
    \E i \in Ids :
        /\ Throttled(i) /\ ~inv[i].trailing
        /\ Len(calls) = 3 /\ Len(execs) = 2
        /\ ExecutedInCall(1) /\ NeverExecuted(2) /\ ExecutedInCall(3)
        /\ calls[2].time < calls[1].time + inv[i].delay
        /\ lastOp.op = "flush"


\* ----------------------------------------------------------------- C36
\* C36 (throttle, leading = false, trailing = false): a call that finds
\* lastCall at 0 (the first call, and the first after each cancel()) executes
\* nothing, schedules nothing and records its time as lastCall; the callable
\* is executed only in a call that arrives delay or more after lastCall,
\* which is then the time of the execution before it or of such a dropped
\* call; no timer is ever scheduled; lastCall goes back to 0 in cancel() only.
C36_NeitherEdge ==
    [][\A i \in Ids :
          (Throttled(i) /\ ~inv[i].leading /\ ~inv[i].trailing) =>
              /\ Outstanding(i)' = {}
              /\ (lastOp'.op = "invoke" /\ lastOp'.id = i /\ inv[i].lastCall = 0) =>
                     /\ lastOp'.ran = 0
                     /\ inv'[i].lastCall = now
              /\ (lastOp'.ran = 1 /\ lastOp'.id = i) =>
                     /\ lastOp'.op = "invoke"
                     /\ inv[i].lastCall # 0
                     /\ now - inv[i].lastCall >= inv[i].delay
                     /\ AtLastExecution(i) \/ AtUnexecutedCall(i)
                     /\ Last(execs').args = Last(calls').args
                     /\ inv'[i].lastCall = now
              /\ (inv[i].lastCall # 0 /\ inv'[i].lastCall = 0) =>
                     lastOp'.op = "cancel"
              /\ (lastOp'.op = "cancel" /\ lastOp'.id = i) =>
                     inv'[i].lastCall = 0]_vars

\* the first call was dropped; cancel() put lastCall back to 0, so the second
\* call, a full delay after the first, was dropped as well; the third, a
\* full delay after the second, was executed
C36_Witness ==
    \E i \in Ids :
        /\ Throttled(i) /\ ~inv[i].leading /\ ~inv[i].trailing
        /\ Len(calls) = 3 /\ Len(execs) = 1
        /\ lastOp.op = "invoke" /\ lastOp.ran = 1
        /\ calls[1].time > 0
        /\ calls[2].time - calls[1].time >= inv[i].delay
        /\ calls[3].time - calls[2].time >= inv[i].delay
        /\ ExecutedInCall(3)


\* ----------------------------------------------------------------- C37
\* invoker i is debounced with immediate = true, all its calls so far came
\* less than delay after the one before, and flush() has executed nothing
ImmediateBurst(i) ==
    /\ Debounced(i) /\ inv[i].immediate
    /\ CallsOf(i) # <<>>
    /\ Burst(i)
    /\ flushed = {}

\* C37 (debounce, immediate = true, with cancel), as stated: in a burst of
\* calls less than delay apart the callable is executed at most once, also
\* when cancel() is called between two calls of the burst.
C37_BurstWithCancelAsStated ==
    \A i \in Ids : ImmediateBurst(i) => Len(ExecsOf(i)) <= 1

\* no timer of the invoker was scheduled when call number k arrived
FoundNoTimer(k) == calls[k].held = {}

\* call number k left no timer behind: none of its timers is scheduled, was
\* found by a later call or was cleared by cancel()
LeftNoTimer(k) ==
    /\ k \notin cancelled
    /\ \A t \in timers : t.call # k
    /\ \A j \in 1 .. Len(calls) : k \notin calls[j].held

\* C37, amended: in a burst of calls less than delay apart, the callable
\* being free to return or throw, a call executes the callable, in the call
\* and once, exactly when it finds no timer scheduled, and that is: the first
\* call, a call that follows a cancel() of the timer of the call before it,
\* and a call that follows a call in which the callable threw (which armed
\* no timer); every other call of the burst executes nothing.
C37_BurstWithCancel ==
    \A i \in Ids :
        ImmediateBurst(i) =>
            \A k \in 1 .. Len(calls) :
                calls[k].id = i =>
                    /\ IF FoundNoTimer(k)
                       THEN ExecutedInCall(k)
                       ELSE NeverExecuted(k)
                    /\ FoundNoTimer(k) <=>
                           \/ k = 1
                           \/ (k - 1) \in cancelled
                           \/ ExecutedInCall(k - 1) /\ LeftNoTimer(k - 1)

\* a burst of three calls: the first executed and armed a timer, cancel()
\* cleared it, the second executed, threw and armed nothing, and the third
\* executed as well
C37_Witness ==
    \E i \in Ids :
        /\ ImmediateBurst(i)
        /\ Len(calls) = 3 /\ Len(execs) = 3
        /\ cancelled = {1}
        /\ LeftNoTimer(2)
        /\ ExecutedInCall(1) /\ ExecutedInCall(2) /\ ExecutedInCall(3)


\* ----------------------------------------------------------------- C38
\* C38 (simpleThrottle): a call executes the callable in the call, with its
\* own arguments and receiver, exactly when now - lastCall >= delay, and then
\* lastCall is now; any other call changes nothing and nothing is ever
\* scheduled.  So, the clock not going back, an execution is at least delay
\* after the one before it, and the first call is executed whenever the
\* clock reads delay or more.
C38_SimpleThrottle ==
    /\ [][\A i \in Ids :
              (inv[i].policy = "simple" /\ lastOp'.op = "invoke" /\ lastOp'.id = i) =>
                  /\ timers' = {}
                  /\ IF now - inv[i].lastCall >= inv[i].delay
                     THEN /\ lastOp'.ran = 1
                          /\ Last(execs').via = "invoke"
                          /\ Last(execs').time = now
                          /\ Last(execs').args = Last(calls').args
                          /\ Last(execs').ctx = Last(calls').ctx
                          /\ inv' = [inv EXCEPT ![i].lastCall = now]
                     ELSE /\ execs' = execs
                          /\ inv' = inv]_vars
    /\ [](\A i \in Ids :
              inv[i].policy = "simple" =>
                  /\ \A n \in 2 .. Len(ExecsOf(i)) :
                         ExecsOf(i)[n].time - ExecsOf(i)[n - 1].time >= inv[i].delay
                  /\ (CallsOf(i) # <<>> /\ CallsOf(i)[1].time >= inv[i].delay) =>
                         ExecutedInCall(1))

\* with a positive delay, of three calls the first was executed at a clock
\* reading of delay, the second was dropped inside the window, and the third
\* was executed exactly delay after the first
C38_Witness ==
    \E i \in Ids :
        /\ inv[i].policy = "simple" /\ inv[i].delay > 0
        /\ Len(calls) = 3 /\ Len(execs) = 2
        /\ calls[1].time = inv[i].delay
        /\ ExecutedInCall(1) /\ NeverExecuted(2) /\ ExecutedInCall(3)
        /\ calls[3].time - calls[1].time = inv[i].delay


\* ----------------------------------------------------------------- C39
\* C39 (gallery counters), as stated: under any interleaving of observer
\* callbacks, loadAllImages, the retry, resetDemo and download completions
\* every lazy image increments state.loadedImages at most once, and
\* state.loadedImages never exceeds state.totalImages.
C39_CountedOnce ==
    /\ \A img \in 1 .. Len(page.images) : page.images[img].counted <= 1
    /\ page.state.loadedImages <= page.state.totalImages



\* ---------------------------------------------------------------- C40
\* the balance the k-th history entry was written over: the opening balance
\* for the first entry, the balance of the entry before it otherwise
BalanceBefore(k) ==
    IF k = 1 THEN Num(InitialBalance)
    ELSE account.transactionHistory[k - 1].balance

\* what withdraw and deposit reject, as the claim words it
Rejected(fn, amount, balance) ==
    \/ fn = "withdraw" /\ (LessEq(amount, Num(0)) \/ Greater(amount, balance))
    \/ fn = "deposit" /\ Less(amount, Num(100))

\* C40: in BankAccount the balance is never negative after any sequence of
\* deposit and withdraw calls; a rejected call (withdraw of an amount <= 0 or
\* above the balance, deposit of an amount < 100) returns false and leaves
\* the balance and the history as they were; an accepted call returns true
\* and appends exactly one entry, which records the balance after the
\* operation.
C40_BankAccount ==
    /\ [](/\ ~Less(account.accountBalance, Num(0))
          /\ \A k \in 1 .. Len(account.transactionHistory) :
                LET e == account.transactionHistory[k]
                IN  /\ ~Less(e.balance, Num(0))
                    /\ e.balance = IF e.type = "Withdraw"
                                   THEN Minus(BalanceBefore(k), e.amount)
                                   ELSE Plus(BalanceBefore(k), e.amount))
    /\ [][LET c == account'.lastCall
              old == account.transactionHistory
          IN  IF Rejected(c.fn, c.amount, account.accountBalance)
              THEN /\ account'.returned = FALSE
                   /\ account'.accountBalance = account.accountBalance
                   /\ account'.transactionHistory = old
              ELSE /\ account'.returned = TRUE
                   /\ account'.accountBalance =
                          IF c.fn = "withdraw"
                          THEN Minus(account.accountBalance, c.amount)
                          ELSE Plus(account.accountBalance, c.amount)
                   /\ account'.transactionHistory =
                          Append(old, [type |-> IF c.fn = "withdraw"
                                                THEN "Withdraw" ELSE "Deposit",
                                       amount |-> c.amount,
                                       balance |-> account'.accountBalance])]_vars

\* the usage example has run: deposit(500) and withdraw(200) accepted,
\* deposit(50) rejected, and withdraw(2000) just rejected
C40_Witness ==
    /\ account.lastCall = [fn |-> "withdraw", amount |-> Num(2000)]
    /\ account.returned = FALSE
    /\ account.accountBalance = Num(1300)
    /\ account.transactionHistory =
           << [type |-> "Deposit", amount |-> Num(500), balance |-> Num(1500)],
              [type |-> "Withdraw", amount |-> Num(200), balance |-> Num(1300)] >>

====
